---------------------------- MODULE Spec2Model ----------------------------
(***************************************************************************)
(* Shot detection and validation pipeline of the finger-gun game.          *)
(*                                                                         *)
(*   util/finger_gun_detector.py  FingerGunDetector: hand selection, pose  *)
(*                                predicate, cock/fire state machine,      *)
(*                                overlay person classification, streak    *)
(*                                main: frame loop and reconnect loop      *)
(*   util/shot_analyzer.py        ShotAnalyzer: hit validation, reporting  *)
(*   util/webrtc_client.py        WebRTCClient: the bounded frame queue    *)
(*                                                                         *)
(* Units.  Landmark coordinates are normalised floats in the source; here  *)
(* they are integers in hundredths (0.02 is 2, 0.08 is 8).  Wall-clock     *)
(* time is counted in ticks, TicksPerSecond ticks to the second.  Pixel    *)
(* coordinates and pixel counts are the source's integers.                  *)
(***************************************************************************)
EXTENDS Integers, Sequences, FiniteSets, TLC

VARIABLES
    \* FingerGunDetector fields (finger_gun_detector.py:45-76)
    player_id,            \* self.player_id
    prev_thumb_y,         \* self.prev_thumb_y : hand id -> previous thumb-tip y
    is_cocked,            \* self.is_cocked    : hand id -> BOOLEAN
    last_shot_time,       \* self.last_shot_time (one value for the detector)
    yellow_count,         \* self.yellow_count
    green_count,          \* self.green_count
    kill_streak,          \* self.kill_streak
    \* environment
    now,                  \* what time.time() returns
    \* results of the last process_frame call
    shot_fired,           \* second component of process_frame's return value
    finger_gun_detected,  \* process_frame's local of that name
    hits_sent,            \* number of send_hit_to_api calls made during it
    \* history of the last process_frame call: the hand id it selected (None
    \* if it evaluated no hand) and the branch detect_cock_motion took
    frame_hand,
    frame_thumb_y,        \* thumb-tip y of that hand in that frame (0 if none)
    ev,
    \* history: per hand id, the time of its last shot event (0 if none, as
    \* last_shot_time starts at 0)
    hand_shot_time,
    \* is_valid_hit applied to one input: the input and the returned value
    hit_in,
    hit_out,
    \* the shot branch of the last process_frame call
    shot_valid,           \* value analyze_shot returned (FALSE if no shot)
    response,             \* what requests.post gave send_hit_to_api
    report_ok,            \* value send_hit_to_api returned (FALSE if not called)
    \* history: the values analyze_shot returned since start, in order
    shot_log,
    \* history of the last process_frame call: the number of inference calls
    \* made on a person detector, and what the shot branch gave to save_shot
    \* and analyze_shot
    detector_calls,
    shot_call,
    \* the frame loop of main is still running
    running,
    \* a function applied to one input: the input and the returned value
    fn_in,
    fn_out,
    \* main of finger_gun_detector.py: the video source
    cap,                  \* "open": an opened capture; "unopened": a capture
                          \* object that failed to open; "none": None
    consecutive_failures, \* main's local of that name
    main_ev,              \* history: what the last step of main's loops did
    stream_up,            \* environment: the stream is available, so that
                          \* every open and every read of it succeeds
    \* WebRTCClient fields (webrtc_client.py:18-26) and its two threads
    frame_queue,          \* self.frame_queue, oldest frame first
    last_frame,           \* self.last_frame (0 for None)
    recv_pc,              \* where _receive_frames stands
    img,                  \* _receive_frames' local of that name (0 before the first)
    received,             \* history: number of frames track.recv() has given
    read_out,             \* what the last read() returned, and from where
    inserted,             \* history: frames that were put into the queue
    consumed,             \* history: frames that read() took from the queue
    \* WebRTCClient: its flags, its background thread and its peer connection
    client_running,       \* self.running
    connected,            \* self.connected
    conn_pc,              \* where the thread running _connect stands
    pc,                   \* self.pc: "none", "open" or "closed"
    conn_state,           \* self.pc.connectionState
    start_pc,             \* where the call of start() stands
    stop_pc,              \* where a call of stop() stands
    \* the frame thread inside process_frame, and the threads it has started
    frame_pc,             \* "loop" between two calls, else the statement of
                          \* the shot branch that is being executed
    sound_threads,        \* sound-playing threads that have not ended
    \* the scoring service (backend/main.py and its database)
    players,              \* table "players", rows in the order of their ids
    hits,                 \* table "hits", rows in the order of their ids
    request,              \* history: the last request that was handled
    reply,                \* history: the answer it got
    \* WebRTCClient: the offer/answer handshake of _connect
    error,                \* self.error ("None" or the kind of the exception)
    handshake,            \* history: the steps of the handshake, in order
    signal_reply,         \* history: what the signaling request got
    \* WebRTCClient over several calls of start() and stop()
    threads,              \* background thread -> where it stands in _connect
    pcs,                  \* peer connection of each thread: its state
    self_pc,              \* self.pc: the thread whose connection it is, 0: None
    self_thread           \* self.thread: the last thread started, 0: None

detector_vars == <<player_id, prev_thumb_y, is_cocked, last_shot_time,
                   yellow_count, green_count, kill_streak>>
frame_vars    == <<detector_vars, now, hits_sent, shot_fired,
                   finger_gun_detected, frame_hand, frame_thumb_y, ev,
                   hand_shot_time>>
hit_vars      == <<hit_in, hit_out>>
shot_vars     == <<shot_valid, response, report_ok, shot_log, running,
                   detector_calls, shot_call>>
fn_vars       == <<fn_in, fn_out>>
main_vars     == <<cap, consecutive_failures, main_ev, stream_up>>
queue_vars    == <<frame_queue, last_frame, recv_pc, img, received, read_out,
                   inserted, consumed>>
client_vars   == <<client_running, connected, conn_pc, pc, conn_state,
                   start_pc, stop_pc>>
effect_vars   == <<frame_pc, sound_threads>>
backend_vars  == <<players, hits, request, reply>>
handshake_vars == <<error, handshake, signal_reply>>
session_vars  == <<threads, pcs, self_pc, self_thread>>
aux_vars      == <<fn_vars, queue_vars, client_vars, effect_vars, backend_vars,
                   handshake_vars, session_vars>>
vars          == <<frame_vars, hit_vars, shot_vars, main_vars, aux_vars>>

----------------------------------------------------------------------------
(* Bounds of the model *)

MaxDets == 2            \* longest list of person detections in an image
MaxTime == 4            \* last tick of the wall clock
MaxThumbDelta == 3      \* thumb-tip y ranges over 50 .. 50 + MaxThumbDelta
TicksPerSecond == 2     \* resolution of the wall clock
MaxStarts == 2          \* background threads one client starts

----------------------------------------------------------------------------
(* Small helpers *)

Max2(a, b) == IF a >= b THEN a ELSE b
Min2(a, b) == IF a <= b THEN a ELSE b

RECURSIVE SeqsUpTo(_, _)
SeqsUpTo(S, n) ==
    IF n = 0 THEN {<<>>}
    ELSE LET shorter == SeqsUpTo(S, n - 1)
         IN  shorter \cup {Append(s, x) : s \in {t \in shorter : Len(t) = n - 1}, x \in S}

None == "None"

----------------------------------------------------------------------------
(* shot_analyzer.py : configuration *)

\* PLAYER_CONFIG.get(player_id, ("unknown", "yellow"))
PLAYER_CONFIG(pid) ==
    IF pid = 1 THEN [username |-> "Phil", target_team |-> "yellow"]
    ELSE IF pid = 2 THEN [username |-> "Kevin", target_team |-> "green"]
    ELSE [username |-> "unknown", target_team |-> "yellow"]

MIN_HIGHVIS_AREA == 500

----------------------------------------------------------------------------
(* shot_analyzer.py : ShotAnalyzer.boxes_overlap *)
(* A box is <<x1, y1, x2, y2>>.  box1 is the hand box.  The float test     *)
(* intersection / area_hand > 0.3 is the integer test                      *)
(* 10 * intersection > 3 * area_hand for integer operands.                 *)

\* variant: a ratio of exactly 0.3 counts as overlapping
boxes_overlap_AtThreshold(box1, box2) ==
    LET x1_i == Max2(box1[1], box2[1])
        y1_i == Max2(box1[2], box2[2])
        x2_i == Min2(box1[3], box2[3])
        y2_i == Min2(box1[4], box2[4])
        intersection == (x2_i - x1_i) * (y2_i - y1_i)
        area_hand == (box1[3] - box1[1]) * (box1[4] - box1[2])
    IN  IF x2_i <= x1_i \/ y2_i <= y1_i THEN FALSE
        ELSE area_hand > 0 /\ 10 * intersection >= 3 * area_hand

boxes_overlap(box1, box2) ==
    LET x1_i == Max2(box1[1], box2[1])
        y1_i == Max2(box1[2], box2[2])
        x2_i == Min2(box1[3], box2[3])
        y2_i == Min2(box1[4], box2[4])
        intersection == (x2_i - x1_i) * (y2_i - y1_i)
        area_hand == (box1[3] - box1[1]) * (box1[4] - box1[2])
    IN  IF x2_i <= x1_i \/ y2_i <= y1_i THEN FALSE
        ELSE area_hand > 0 /\ 10 * intersection > 3 * area_hand

----------------------------------------------------------------------------
(* shot_analyzer.py : ShotAnalyzer.classify_person_team *)
(* shape is <<height, width>> of the image.  A person detection carries    *)
(* its box and the numbers of non-zero pixels of the yellow and the green  *)
(* mask inside the upper-torso region of that box.  int(h * 0.15) and      *)
(* int(h * 0.45) are h * 15 \div 100 and h * 45 \div 100 for h >= 0.       *)

roi_size(shape, box) ==
    LET h == box[4] - box[2]
        upper_y == Max2(0, box[2] + (h * 15) \div 100)
        upper_h == (h * 45) \div 100
        upper_x == Max2(0, box[1])
        end_y == Min2(shape[1], upper_y + upper_h)
        end_x == Min2(shape[2], box[3])
    IN  Max2(0, end_y - upper_y) * Max2(0, end_x - upper_x)

\* variant: a pixel count equal to the minimum area counts as enough
classify_person_team_AtMinArea(shape, det) ==
    LET total_pixels == roi_size(shape, det.box)
        yellow_valid == 100 * det.yellow_pixels > 3 * total_pixels
                        /\ det.yellow_pixels >= MIN_HIGHVIS_AREA
        green_valid  == 100 * det.green_pixels > 3 * total_pixels
                        /\ det.green_pixels >= MIN_HIGHVIS_AREA
    IN  IF total_pixels = 0 THEN None
        ELSE IF yellow_valid /\ green_valid
             THEN (IF det.yellow_pixels > det.green_pixels THEN "yellow" ELSE "green")
        ELSE IF yellow_valid THEN "yellow"
        ELSE IF green_valid THEN "green"
        ELSE None

classify_person_team(shape, det) ==
    LET total_pixels == roi_size(shape, det.box)
        yellow_valid == 100 * det.yellow_pixels > 3 * total_pixels
                        /\ det.yellow_pixels > MIN_HIGHVIS_AREA
        green_valid  == 100 * det.green_pixels > 3 * total_pixels
                        /\ det.green_pixels > MIN_HIGHVIS_AREA
    IN  IF total_pixels = 0 THEN None
        ELSE IF yellow_valid /\ green_valid
             THEN (IF det.yellow_pixels > det.green_pixels THEN "yellow" ELSE "green")
        ELSE IF yellow_valid THEN "yellow"
        ELSE IF green_valid THEN "green"
        ELSE None

----------------------------------------------------------------------------
(* shot_analyzer.py : ShotAnalyzer.send_hit_to_api *)
(* requests.post either returns a response with a status code or raises.   *)
(* The result is a record: the returned boolean and whether an exception   *)
(* leaves the function.                                                     *)

\* what requests.post can give: a status code, or an exception (timeout,
\* connection error); NoResponse stands for no request made
StatusCodes == {200, 201, 204, 400, 404, 500}
StatusResponse(code) == [kind |-> "status", status_code |-> code]
TransportError == [kind |-> "exception", status_code |-> 0]
NoResponse == [kind |-> "none", status_code |-> 0]
Responses == {StatusResponse(c) : c \in StatusCodes} \cup {TransportError}

\* variant: an exception of requests.post is not caught
send_hit_to_api_Propagates(resp) ==
    [ok     |-> resp.kind = "status" /\ resp.status_code = 200,
     raised |-> resp.kind = "exception"]

send_hit_to_api(resp) ==
    [ok     |-> resp.kind = "status" /\ resp.status_code = 200,
     raised |-> FALSE]

----------------------------------------------------------------------------
(* shot_analyzer.py : ShotAnalyzer.is_valid_hit *)
(* image is NoImage when cv2.imread returns None, else a record of the     *)
(* image's shape and the person detector's output on it, in output order.  *)
(* hand_bbox is NoBox for the source's hand_bbox=None.                     *)
(* The result is a record: the returned boolean and whether                *)
(* send_hit_to_api was called.                                             *)

NoImage == [readable |-> FALSE, shape |-> <<0, 0>>, persons |-> <<>>]
NoBox == <<>>

\* the crosshair test of line 175
crosshair_in(shape, box) ==
    LET center_x == shape[2] \div 2
        center_y == shape[1] \div 2
    IN  box[1] <= center_x /\ center_x <= box[3]
        /\ box[2] <= center_y /\ center_y <= box[4]

\* variant: a detection without a colour defaults to yellow
resolved_team_DefaultYellow(shape, det) ==
    LET person_team == classify_person_team(shape, det)
    IN  IF person_team = None THEN "yellow" ELSE person_team

\* the team compared at line 184, after the default of lines 180-181
resolved_team(shape, det) ==
    LET person_team == classify_person_team(shape, det)
    IN  IF person_team = None THEN "green" ELSE person_team

\* variant: a box on the crosshair of the wrong team is passed over and the
\* loop goes on to the next detection
RECURSIVE scan_boxes_SkipWrongTeam(_, _, _, _, _)
scan_boxes_SkipWrongTeam(shape, persons, hand_bbox, target_team, i) ==
    IF i > Len(persons) THEN [valid |-> FALSE, sent |-> FALSE]
    ELSE IF hand_bbox # NoBox /\ boxes_overlap(hand_bbox, persons[i].box)
         THEN scan_boxes_SkipWrongTeam(shape, persons, hand_bbox, target_team, i + 1)
    ELSE IF crosshair_in(shape, persons[i].box)
            /\ resolved_team(shape, persons[i]) = target_team
         THEN [valid |-> TRUE, sent |-> TRUE]
    ELSE scan_boxes_SkipWrongTeam(shape, persons, hand_bbox, target_team, i + 1)

\* variant: the hit is valid when the team differs from the target team
RECURSIVE scan_boxes_OtherTeam(_, _, _, _, _)
scan_boxes_OtherTeam(shape, persons, hand_bbox, target_team, i) ==
    IF i > Len(persons) THEN [valid |-> FALSE, sent |-> FALSE]
    ELSE IF hand_bbox # NoBox /\ boxes_overlap(hand_bbox, persons[i].box)
         THEN scan_boxes_OtherTeam(shape, persons, hand_bbox, target_team, i + 1)
    ELSE IF crosshair_in(shape, persons[i].box)
         THEN (IF resolved_team(shape, persons[i]) # target_team
               THEN [valid |-> TRUE, sent |-> TRUE]
               ELSE [valid |-> FALSE, sent |-> FALSE])
    ELSE scan_boxes_OtherTeam(shape, persons, hand_bbox, target_team, i + 1)

\* variant: a hit on the wrong team is reported as well
RECURSIVE scan_boxes_ReportEveryHit(_, _, _, _, _)
scan_boxes_ReportEveryHit(shape, persons, hand_bbox, target_team, i) ==
    IF i > Len(persons) THEN [valid |-> FALSE, sent |-> FALSE]
    ELSE IF hand_bbox # NoBox /\ boxes_overlap(hand_bbox, persons[i].box)
         THEN scan_boxes_ReportEveryHit(shape, persons, hand_bbox, target_team, i + 1)
    ELSE IF crosshair_in(shape, persons[i].box)
         THEN [valid |-> resolved_team(shape, persons[i]) = target_team,
               sent  |-> TRUE]
    ELSE scan_boxes_ReportEveryHit(shape, persons, hand_bbox, target_team, i + 1)

\* the loop of lines 164-191 from detection i on; line 193-194 after it
RECURSIVE scan_boxes(_, _, _, _, _)
scan_boxes(shape, persons, hand_bbox, target_team, i) ==
    IF i > Len(persons) THEN [valid |-> FALSE, sent |-> FALSE]
    ELSE IF hand_bbox # NoBox /\ boxes_overlap(hand_bbox, persons[i].box)
         THEN scan_boxes(shape, persons, hand_bbox, target_team, i + 1)
    ELSE IF crosshair_in(shape, persons[i].box)
         THEN (IF resolved_team(shape, persons[i]) = target_team
               THEN [valid |-> TRUE, sent |-> TRUE]
               ELSE [valid |-> FALSE, sent |-> FALSE])
    ELSE scan_boxes(shape, persons, hand_bbox, target_team, i + 1)

is_valid_hit(image, hand_bbox, target_team) ==
    IF ~image.readable THEN [valid |-> FALSE, sent |-> FALSE]
    ELSE scan_boxes(image.shape, image.persons, hand_bbox, target_team, 1)

\* analyze_shot: a fresh ShotAnalyzer(player_id), then is_valid_hit
analyze_shot(image, hand_bbox, pid) ==
    is_valid_hit(image, hand_bbox, PLAYER_CONFIG(pid).target_team)


----------------------------------------------------------------------------
(* finger_gun_detector.py : configuration of FingerGunDetector.__init__ *)

CockThreshold == 2                  \* self.cock_threshold = 0.02, in hundredths
ShotCooldown == 1 * TicksPerSecond  \* self.shot_cooldown = 1.0 second, in ticks

\* time.time() counts seconds since 1970: at start-up it is far beyond the
\* cooldown.  The model starts the clock at the smallest such value.
StartTime == ShotCooldown

HandIds == {"Left", "Right"}        \* handedness.classification[0].label

----------------------------------------------------------------------------
(* finger_gun_detector.py : FingerGunDetector.is_finger_gun *)
(* lm is the landmark list of one hand: 0..20 -> [x, y, z].                *)

\* variant: the pose counts only while the right hand is not cocked
is_finger_gun_UnlessCocked(lm) ==
    LET index_extended == lm[8].z < lm[6].z \/ lm[8].y < lm[6].y
        dx == lm[4].x - lm[2].x
        thumb_up == lm[4].y < lm[2].y \/ (IF dx >= 0 THEN dx ELSE -dx) > 8
        middle_curled == lm[12].z >= lm[10].z \/ lm[12].y >= lm[10].y
        ring_curled   == lm[16].z >= lm[14].z \/ lm[16].y >= lm[14].y
        pinky_curled  == lm[20].z >= lm[18].z \/ lm[20].y >= lm[18].y
    IN  /\ index_extended /\ thumb_up /\ middle_curled /\ ring_curled /\ pinky_curled
        /\ ~("Right" \in DOMAIN is_cocked /\ is_cocked["Right"])

\* variant: the thumb is not looked at
is_finger_gun_AnyThumb(lm) ==
    LET index_extended == lm[8].z < lm[6].z \/ lm[8].y < lm[6].y
        middle_curled == lm[12].z >= lm[10].z \/ lm[12].y >= lm[10].y
        ring_curled   == lm[16].z >= lm[14].z \/ lm[16].y >= lm[14].y
        pinky_curled  == lm[20].z >= lm[18].z \/ lm[20].y >= lm[18].y
    IN  index_extended /\ middle_curled /\ ring_curled /\ pinky_curled

is_finger_gun(lm) ==
    LET index_tip == lm[8]
        index_pip == lm[6]
        index_extended == index_tip.z < index_pip.z \/ index_tip.y < index_pip.y
        thumb_tip == lm[4]
        thumb_mcp == lm[2]
        dx == thumb_tip.x - thumb_mcp.x
        thumb_up == thumb_tip.y < thumb_mcp.y \/ (IF dx >= 0 THEN dx ELSE -dx) > 8
        middle_curled == lm[12].z >= lm[10].z \/ lm[12].y >= lm[10].y
        ring_curled   == lm[16].z >= lm[14].z \/ lm[16].y >= lm[14].y
        pinky_curled  == lm[20].z >= lm[18].z \/ lm[20].y >= lm[18].y
    IN  index_extended /\ thumb_up /\ middle_curled /\ ring_curled /\ pinky_curled

----------------------------------------------------------------------------
(* finger_gun_detector.py : get_hand_bbox, get_hand_size, get_closest_hand *)
(* int(lm.x * w) for lm.x = k / 100 is (k * w) \div 100.                    *)

SetMin(S) == CHOOSE m \in S : \A n \in S : m <= n
SetMax(S) == CHOOSE m \in S : \A n \in S : m >= n

get_hand_bbox(lm, shape) ==
    LET h == shape[1]
        w == shape[2]
        x_coords == {(lm[i].x * w) \div 100 : i \in DOMAIN lm}
        y_coords == {(lm[i].y * h) \div 100 : i \in DOMAIN lm}
        padding == 30
    IN  << Max2(0, SetMin(x_coords) - padding),
           Max2(0, SetMin(y_coords) - padding),
           Min2(w, SetMax(x_coords) + padding),
           Min2(h, SetMax(y_coords) + padding) >>

get_hand_size(lm, shape) ==
    LET bbox == get_hand_bbox(lm, shape)
    IN  (bbox[3] - bbox[1]) * (bbox[4] - bbox[2])

\* variant: a later hand of equal size replaces the one found so far
RECURSIVE closest_from_LastAmongEquals(_, _, _, _, _)
closest_from_LastAmongEquals(hands, shape, idx, max_size, closest_idx) ==
    IF idx > Len(hands) THEN closest_idx
    ELSE LET size == get_hand_size(hands[idx].landmark, shape)
         IN  IF size >= max_size
             THEN closest_from_LastAmongEquals(hands, shape, idx + 1, size, idx)
             ELSE closest_from_LastAmongEquals(hands, shape, idx + 1, max_size, closest_idx)

\* the loop of lines 362-369 from index idx on (indices are 1-based here)
RECURSIVE closest_from(_, _, _, _, _)
closest_from(hands, shape, idx, max_size, closest_idx) ==
    IF idx > Len(hands) THEN closest_idx
    ELSE LET size == get_hand_size(hands[idx].landmark, shape)
         IN  IF size > max_size
             THEN closest_from(hands, shape, idx + 1, size, idx)
             ELSE closest_from(hands, shape, idx + 1, max_size, closest_idx)

\* index of the closest hand, 0 for an empty list (the source's (None, -1))
get_closest_hand(hands, shape) ==
    IF hands = <<>> THEN 0 ELSE closest_from(hands, shape, 1, 0, 1)

----------------------------------------------------------------------------
(* finger_gun_detector.py : FingerGunDetector.detect_cock_motion *)
(* Applied to the detector's current fields, the hand id, the thumb-tip y  *)
(* of the frame and the value of time.time().  The result holds the new    *)
(* fields, the returned boolean and the branch taken (ev).  hand_shot_time  *)
(* is not a field of the detector; only a variant below reads it.          *)

MapPut(f, k, v) == [x \in DOMAIN f \cup {k} |-> IF x = k THEN v ELSE f[x]]

\* lines 240-244: the first observation of a hand id
first_observation(hand_id, current_thumb_y) ==
    [prev_thumb_y   |-> MapPut(prev_thumb_y, hand_id, current_thumb_y),
     is_cocked      |-> MapPut(is_cocked, hand_id, FALSE),
     last_shot_time |-> last_shot_time,
     shot_fired     |-> FALSE,
     ev             |-> "init"]

\* lines 254-271, given which branch is taken: cock (line 258), fire (line
\* 262) and, within fire, shot (line 263)
motion_result(hand_id, current_thumb_y, current_time, cock, fire, shot) ==
    [prev_thumb_y   |-> MapPut(prev_thumb_y, hand_id, current_thumb_y),
     is_cocked      |-> IF cock THEN MapPut(is_cocked, hand_id, TRUE)
                        ELSE IF fire THEN MapPut(is_cocked, hand_id, FALSE)
                        ELSE is_cocked,
     last_shot_time |-> IF shot THEN current_time ELSE last_shot_time,
     shot_fired     |-> shot,
     ev             |-> IF cock THEN "cock"
                        ELSE IF shot THEN "fire"
                        ELSE IF fire THEN "suppressed"
                        ELSE "idle"]

\* variant: the cooldown is not consulted
detect_cock_motion_NoCooldown(hand_id, current_thumb_y, current_time) ==
    IF hand_id \notin DOMAIN prev_thumb_y
    THEN first_observation(hand_id, current_thumb_y)
    ELSE
    LET thumb_movement == current_thumb_y - prev_thumb_y[hand_id]
        cock == thumb_movement < -CockThreshold /\ ~is_cocked[hand_id]
        fire == ~cock /\ thumb_movement > CockThreshold /\ is_cocked[hand_id]
    IN  motion_result(hand_id, current_thumb_y, current_time, cock, fire, fire)

\* variant: the cooldown is measured from the same hand's last shot
detect_cock_motion_PerHand(hand_id, current_thumb_y, current_time) ==
    IF hand_id \notin DOMAIN prev_thumb_y
    THEN first_observation(hand_id, current_thumb_y)
    ELSE
    LET on_cooldown == current_time - hand_shot_time[hand_id] < ShotCooldown
        thumb_movement == current_thumb_y - prev_thumb_y[hand_id]
        cock == thumb_movement < -CockThreshold /\ ~is_cocked[hand_id]
        fire == ~cock /\ thumb_movement > CockThreshold /\ is_cocked[hand_id]
    IN  motion_result(hand_id, current_thumb_y, current_time, cock, fire,
                      fire /\ ~on_cooldown)

\* variant: a firing motion on cooldown is ignored, the hand stays cocked
detect_cock_motion_KeepCock(hand_id, current_thumb_y, current_time) ==
    IF hand_id \notin DOMAIN prev_thumb_y
    THEN first_observation(hand_id, current_thumb_y)
    ELSE
    LET on_cooldown == current_time - last_shot_time < ShotCooldown
        thumb_movement == current_thumb_y - prev_thumb_y[hand_id]
        cock == thumb_movement < -CockThreshold /\ ~is_cocked[hand_id]
        fire == ~cock /\ thumb_movement > CockThreshold /\ is_cocked[hand_id]
                /\ ~on_cooldown
    IN  motion_result(hand_id, current_thumb_y, current_time, cock, fire, fire)

\* variant: no motion is evaluated while on cooldown
detect_cock_motion_CockOffCooldown(hand_id, current_thumb_y, current_time) ==
    IF hand_id \notin DOMAIN prev_thumb_y
    THEN first_observation(hand_id, current_thumb_y)
    ELSE
    LET on_cooldown == current_time - last_shot_time < ShotCooldown
        thumb_movement == current_thumb_y - prev_thumb_y[hand_id]
        cock == ~on_cooldown /\ thumb_movement < -CockThreshold /\ ~is_cocked[hand_id]
        fire == ~cock /\ thumb_movement > CockThreshold /\ is_cocked[hand_id]
    IN  motion_result(hand_id, current_thumb_y, current_time, cock, fire,
                      fire /\ ~on_cooldown)

\* variant: the first observation already evaluates the motion, against a
\* previous thumb position of 0 and a cocked hand
detect_cock_motion_FirstFires(hand_id, current_thumb_y, current_time) ==
    LET known == hand_id \in DOMAIN prev_thumb_y
        on_cooldown == current_time - last_shot_time < ShotCooldown
        thumb_movement == current_thumb_y - (IF known THEN prev_thumb_y[hand_id] ELSE 0)
        cocked == IF known THEN is_cocked[hand_id] ELSE TRUE
        cock == thumb_movement < -CockThreshold /\ ~cocked
        fire == ~cock /\ thumb_movement > CockThreshold /\ cocked
    IN  motion_result(hand_id, current_thumb_y, current_time, cock, fire,
                      fire /\ ~on_cooldown)

\* variant: a hand id that fires is forgotten
detect_cock_motion_ForgetOnFire(hand_id, current_thumb_y, current_time) ==
    IF hand_id \notin DOMAIN prev_thumb_y
    THEN first_observation(hand_id, current_thumb_y)
    ELSE
    LET on_cooldown == current_time - last_shot_time < ShotCooldown
        thumb_movement == current_thumb_y - prev_thumb_y[hand_id]
        cock == thumb_movement < -CockThreshold /\ ~is_cocked[hand_id]
        fire == ~cock /\ thumb_movement > CockThreshold /\ is_cocked[hand_id]
        r == motion_result(hand_id, current_thumb_y, current_time, cock, fire,
                           fire /\ ~on_cooldown)
    IN  IF fire
        THEN [r EXCEPT !.is_cocked =
                 [x \in DOMAIN is_cocked \ {hand_id} |-> is_cocked[x]]]
        ELSE r

\* variant: a firing motion refused by the cooldown restarts the cooldown
detect_cock_motion_StampOnRefusal(hand_id, current_thumb_y, current_time) ==
    IF hand_id \notin DOMAIN prev_thumb_y
    THEN first_observation(hand_id, current_thumb_y)
    ELSE
    LET time_since_last_shot == current_time - last_shot_time
        on_cooldown == time_since_last_shot < ShotCooldown
        thumb_movement == current_thumb_y - prev_thumb_y[hand_id]
        cock == thumb_movement < -CockThreshold /\ ~is_cocked[hand_id]
        fire == ~cock /\ thumb_movement > CockThreshold /\ is_cocked[hand_id]
        shot == fire /\ ~on_cooldown
    IN  [motion_result(hand_id, current_thumb_y, current_time, cock, fire, shot)
            EXCEPT !.last_shot_time = IF fire THEN current_time
                                      ELSE last_shot_time]

detect_cock_motion(hand_id, current_thumb_y, current_time) ==
    IF hand_id \notin DOMAIN prev_thumb_y
    THEN first_observation(hand_id, current_thumb_y)
    ELSE
    LET time_since_last_shot == current_time - last_shot_time
        on_cooldown == time_since_last_shot < ShotCooldown
        thumb_movement == current_thumb_y - prev_thumb_y[hand_id]
        cock == thumb_movement < -CockThreshold /\ ~is_cocked[hand_id]
        fire == ~cock /\ thumb_movement > CockThreshold /\ is_cocked[hand_id]
        shot == fire /\ ~on_cooldown
    IN  motion_result(hand_id, current_thumb_y, current_time, cock, fire, shot)

----------------------------------------------------------------------------
(* finger_gun_detector.py : FingerGunDetector.detect_and_draw_person *)
(* The yellow and green counts over the person detections of the frame,    *)
(* hand_bboxes being the list of hand boxes to exclude.                    *)

\* FingerGunDetector.boxes_overlap, lines 382-401 (box1 is the hand box)
hand_boxes_overlap(box1, box2) ==
    LET x1_i == Max2(box1[1], box2[1])
        y1_i == Max2(box1[2], box2[2])
        x2_i == Min2(box1[3], box2[3])
        y2_i == Min2(box1[4], box2[4])
        intersection == (x2_i - x1_i) * (y2_i - y1_i)
        area1 == (box1[3] - box1[1]) * (box1[4] - box1[2])
    IN  IF x2_i <= x1_i \/ y2_i <= y1_i THEN FALSE
        ELSE area1 > 0 /\ 10 * intersection > 3 * area1

\* lines 485-489
is_hand(hand_bboxes, det) ==
    \E k \in 1..Len(hand_bboxes) : hand_boxes_overlap(hand_bboxes[k], det.box)

\* lines 494-499: classify, then default to green
overlay_team(shape, det) ==
    LET team == classify_person_team(shape, det)
    IN  IF team = None THEN "green" ELSE team

detect_and_draw_person(shape, persons, hand_bboxes) ==
    LET kept == {i \in 1..Len(persons) : ~is_hand(hand_bboxes, persons[i])}
    IN  [yellow_count |-> Cardinality({i \in kept : overlay_team(shape, persons[i]) = "yellow"}),
         green_count  |-> Cardinality({i \in kept : overlay_team(shape, persons[i]) # "yellow"})]

----------------------------------------------------------------------------
(* finger_gun_detector.py : FingerGunDetector.on_hit *)

\* variant: a miss leaves the streak as it is
on_hit_KeepOnMiss(streak, valid) == IF valid THEN streak + 1 ELSE streak

on_hit(streak, valid) == IF valid THEN streak + 1 ELSE 0


----------------------------------------------------------------------------
(* Inputs: what the hand pose provider, the person detector and the colour *)
(* masks report for a frame.                                                *)

FrameShape == <<200, 200>>          \* frame.shape[:2]: height, width

Landmark(x, y, z) == [x |-> x, y |-> y, z |-> z]

ThumbYs == 50 .. (50 + MaxThumbDelta)

\* A hand of 21 landmarks.  pose "gun_x": index forward, thumb out sideways
\* (offset 9 > 8), others curled.  pose "gun_y": thumb offset exactly 8, so
\* the thumb counts as up only while its tip is above the thumb MCP (y < 52).
\* pose "open": as gun_x with the middle finger extended.  pose "raised": as
\* gun_x with the middle finger tip above its pip joint and level with it in
\* depth.  reach widens the hand (the wrist moves left), which enlarges its
\* bounding box.
HandLandmarks(pose, thumb_y, reach) ==
    [i \in 0..20 |->
        CASE i = 0  -> Landmark(70 - reach, 70, 0)
          [] i = 2  -> Landmark(70, IF pose = "gun_y" THEN 52 ELSE 40, 0)
          [] i = 4  -> Landmark(IF pose = "gun_y" THEN 78 ELSE 79, thumb_y, 0)
          [] i = 6  -> Landmark(75, 60, 0)
          [] i = 8  -> Landmark(75, 60, -5)
          [] i = 10 -> Landmark(75, 62, 0)
          [] i = 12 -> IF pose = "open" THEN Landmark(75, 55, -5)
                       ELSE IF pose = "raised" THEN Landmark(75, 55, 0)
                       ELSE Landmark(75, 62, 0)
          [] OTHER  -> Landmark(75, 62, 0)]

Hand(label, pose, thumb_y, reach) ==
    [label |-> label, landmark |-> HandLandmarks(pose, thumb_y, reach)]

\* results.multi_hand_landmarks with results.multi_handedness, as one list
HandLists ==
    {<<>>}
    \cup {<<Hand(l, "gun_x", y, 0)>> : l \in HandIds, y \in ThumbYs}
    \cup {<<Hand("Right", "gun_y", y, 0)>> : y \in ThumbYs}
    \cup {<<Hand(l, "open", 50, 0)>> : l \in HandIds}
    \cup {<<Hand("Left", "gun_x", y, 0), Hand("Right", "gun_x", 50, 20)>> : y \in {50, 53}}
    \cup {<<Hand("Left", "gun_x", y, 0), Hand("Right", "gun_x", 53, 0)>> : y \in {50, 53}}

Person(box, yellow_pixels, green_pixels) ==
    [box |-> box, yellow_pixels |-> yellow_pixels, green_pixels |-> green_pixels]

\* person detections of the frames of the frame loop
PersonCentre(yp, gp) == Person(<<40, 20, 120, 190>>, yp, gp)   \* on the crosshair
PersonOnHand == Person(<<90, 40, 200, 200>>, 2000, 0)          \* covers the hand
PersonAside == Person(<<0, 0, 60, 190>>, 2000, 0)              \* off the crosshair

Scenes ==
    { <<>>,
      <<PersonCentre(2000, 0)>>,
      <<PersonCentre(0, 2000)>>,
      <<PersonOnHand, PersonCentre(2000, 0)>>,
      <<PersonAside, PersonCentre(0, 0)>> }

\* a frame: the hands and the persons detected in it
Frames ==
    {[hands |-> hs, persons |-> <<>>] : hs \in HandLists}
    \cup {[hands |-> <<Hand("Right", "gun_x", 53, 0)>>,
           persons |-> <<PersonOnHand, PersonCentre(2000, 0), PersonAside>>]}

\* what cv2.imread and the person detector give for the saved shot image
Image(shape, persons) == [readable |-> TRUE, shape |-> shape, persons |-> persons]

ShotImages == {NoImage} \cup {Image(FrameShape, ps) : ps \in Scenes}

----------------------------------------------------------------------------
(* The frame loop: FingerGunDetector.__init__, then per frame process_frame *)

PlayerIds == {1, 2}                 \* argparse choices=[1, 2]

\* what the shot branch hands on: the overlays that were drawn on the frame
\* before save_shot wrote it, the hand box given to analyze_shot, and the
\* box of the hand selected at line 596
ShotCall(marks, hand_bbox, selected_bbox) ==
    [made |-> TRUE, overlay |-> marks, hand_bbox |-> hand_bbox,
     selected |-> selected_bbox]
NoShotCall == [made |-> FALSE, overlay |-> {}, hand_bbox |-> NoBox, selected |-> NoBox]

\* the overlays drawn on the frame before the shot branch: the boxes of the
\* counted persons (lines 513-532), the crosshair (line 603) and the
\* skeleton of the selected hand (line 612)
OverlayMarks(counts) ==
    {"crosshair", "trigger_skeleton"}
    \cup (IF counts.yellow_count + counts.green_count > 0
          THEN {"person_boxes"} ELSE {})

InitDetector ==
    /\ player_id \in PlayerIds
    /\ prev_thumb_y = <<>>
    /\ is_cocked = <<>>
    /\ last_shot_time = 0
    /\ yellow_count = 0
    /\ green_count = 0
    /\ kill_streak = 0
    /\ now = StartTime
    /\ hits_sent = 0
    /\ shot_fired = FALSE
    /\ finger_gun_detected = FALSE
    /\ frame_hand = None
    /\ frame_thumb_y = 0
    /\ ev = "none"
    /\ hand_shot_time = [h \in HandIds |-> 0]
    /\ shot_valid = FALSE
    /\ response = NoResponse
    /\ report_ok = FALSE
    /\ shot_log = <<>>
    /\ running = TRUE
    /\ detector_calls = 0
    /\ shot_call = NoShotCall
    /\ frame_pc = "loop"
    /\ sound_threads = {}

\* the wall clock advances between two calls
Tick ==
    /\ now < MaxTime
    /\ now' = now + 1
    /\ UNCHANGED <<detector_vars, hits_sent, shot_fired, finger_gun_detected,
                   frame_hand, frame_thumb_y, ev, hand_shot_time, hit_vars,
                   shot_vars, main_vars, aux_vars>>

\* process_frame, lines 627-637: the shot image is saved and analysed, the
\* hit is reported if valid, and on_hit updates the streak.  An exception
\* that leaves send_hit_to_api leaves process_frame and the loop of main.
\* marks are the overlays drawn on the frame so far, selected_bbox the box of
\* line 596 and hand_bbox the box line 632 computes for the same hand.
\* analyze_shot runs a person detector of its own on the image it can read
\* (shot_analyzer.py lines 33, 150-162), after the one inference call of
\* detect_and_draw_person (line 465).
Shot(hand_id, hand_bbox, selected_bbox, marks) ==
    \E image \in ShotImages :
    \E hit \in {analyze_shot(image, hand_bbox, player_id)} :
    \E resp \in (IF hit.sent THEN Responses ELSE {NoResponse}) :
    \E rep \in {IF hit.sent THEN send_hit_to_api(resp)
                 ELSE [ok |-> FALSE, raised |-> FALSE]} :
        /\ hits_sent' = (IF hit.sent THEN 1 ELSE 0)
        /\ response' = resp
        /\ report_ok' = rep.ok
        /\ hand_shot_time' = [hand_shot_time EXCEPT ![hand_id] = now]
        /\ detector_calls' = (IF image.readable THEN 2 ELSE 1)
        /\ shot_call' = ShotCall(marks, hand_bbox, selected_bbox)
        /\ IF rep.raised
           THEN /\ running' = FALSE
                /\ shot_valid' = FALSE
                /\ UNCHANGED <<kill_streak, shot_log>>
           ELSE /\ shot_valid' = hit.valid
                /\ kill_streak' = on_hit(kill_streak, hit.valid)
                /\ shot_log' = Append(shot_log, hit.valid)
                /\ UNCHANGED running

\* process_frame when no shot event is emitted
NoShot ==
    /\ hits_sent' = 0
    /\ shot_valid' = FALSE
    /\ response' = NoResponse
    /\ report_ok' = FALSE
    /\ detector_calls' = 1
    /\ shot_call' = NoShotCall
    /\ UNCHANGED <<kill_streak, hand_shot_time, shot_log, running>>

\* variant of process_frame: the motion of the selected hand is evaluated
\* whether or not it makes the finger-gun pose
ProcessFrame_NoPoseGate(f) ==
    \E closest_idx \in {get_closest_hand(f.hands, FrameShape)} :
    \E hand_bbox \in {IF closest_idx # 0
                      THEN get_hand_bbox(f.hands[closest_idx].landmark, FrameShape)
                      ELSE NoBox} :
    \E counts \in {detect_and_draw_person(FrameShape, f.persons,
                       IF closest_idx # 0 THEN <<hand_bbox>> ELSE <<>>)} :
    \E gun \in {closest_idx # 0 /\ is_finger_gun(f.hands[closest_idx].landmark)} :
        /\ running
        /\ cap = "open"
        /\ consecutive_failures' = 0
        /\ main_ev' = "frame"
        /\ yellow_count' = counts.yellow_count
        /\ green_count' = counts.green_count
        /\ finger_gun_detected' = gun
        /\ IF closest_idx = 0
           THEN /\ shot_fired' = FALSE
                /\ frame_hand' = None
                /\ frame_thumb_y' = 0
                /\ ev' = "none"
                /\ NoShot
                /\ UNCHANGED <<prev_thumb_y, is_cocked, last_shot_time>>
           ELSE \E hand_id \in {f.hands[closest_idx].label} :
                \E r \in {detect_cock_motion(hand_id,
                              f.hands[closest_idx].landmark[4].y, now)} :
                /\ prev_thumb_y' = r.prev_thumb_y
                /\ is_cocked' = r.is_cocked
                /\ last_shot_time' = r.last_shot_time
                /\ shot_fired' = r.shot_fired
                /\ frame_hand' = hand_id
                /\ frame_thumb_y' = f.hands[closest_idx].landmark[4].y
                /\ ev' = r.ev
                /\ IF r.shot_fired
                   THEN Shot(hand_id,
                             get_hand_bbox(f.hands[closest_idx].landmark, FrameShape),
                             hand_bbox, OverlayMarks(counts))
                   ELSE NoShot
        /\ UNCHANGED <<player_id, now, hit_vars, cap, stream_up, aux_vars>>

\* process_frame(frame), lines 577-651, with the calls it makes, as the loop
\* of main calls it: the loop is running, cap.read() of the open capture
\* gave frame f and the failure counter is reset (line 776).  Each
\* intermediate value is bound once, in the order the code computes it.
ProcessFrame(f) ==
    \E closest_idx \in {get_closest_hand(f.hands, FrameShape)} :
    \E hand_bbox \in {IF closest_idx # 0
                      THEN get_hand_bbox(f.hands[closest_idx].landmark, FrameShape)
                      ELSE NoBox} :
    \E counts \in {detect_and_draw_person(FrameShape, f.persons,
                       IF closest_idx # 0 THEN <<hand_bbox>> ELSE <<>>)} :
    \E gun \in {closest_idx # 0 /\ is_finger_gun(f.hands[closest_idx].landmark)} :
        /\ running
        /\ cap = "open"
        /\ consecutive_failures' = 0
        /\ main_ev' = "frame"
        /\ yellow_count' = counts.yellow_count
        /\ green_count' = counts.green_count
        /\ finger_gun_detected' = gun
        /\ IF ~gun
           THEN /\ shot_fired' = FALSE
                /\ frame_hand' = None
                /\ frame_thumb_y' = 0
                /\ ev' = "none"
                /\ NoShot
                /\ UNCHANGED <<prev_thumb_y, is_cocked, last_shot_time>>
           ELSE \E hand_id \in {f.hands[closest_idx].label} :
                \E r \in {detect_cock_motion(hand_id,
                              f.hands[closest_idx].landmark[4].y, now)} :
                /\ prev_thumb_y' = r.prev_thumb_y
                /\ is_cocked' = r.is_cocked
                /\ last_shot_time' = r.last_shot_time
                /\ shot_fired' = r.shot_fired
                /\ frame_hand' = hand_id
                /\ frame_thumb_y' = f.hands[closest_idx].landmark[4].y
                /\ ev' = r.ev
                /\ IF r.shot_fired
                   THEN Shot(hand_id,
                             get_hand_bbox(f.hands[closest_idx].landmark, FrameShape),
                             hand_bbox, OverlayMarks(counts))
                   ELSE NoShot
        /\ UNCHANGED <<player_id, now, hit_vars, cap, stream_up, aux_vars>>

\* one iteration of the loop of main whose cap.read() gave frame f
Frame == \E f \in Frames : ProcessFrame(f)

\* hit_in and hit_out while is_valid_hit is not under study
HitIdle == [done |-> FALSE, drawn |-> FALSE, valid |-> FALSE, sent |-> FALSE]

\* the variables of the other components while they are not under study
IdleFn == fn_in = <<>> /\ fn_out = <<>>

\* the pair read() returns; frames are numbered from 1, 0 is None.  src is
\* history: the branch of read() that returned
ReadResult(ok, frame, src) == [ok |-> ok, frame |-> frame, src |-> src]
NoFrame(src) == ReadResult(FALSE, 0, src)

\* WebRTCClient.__init__, lines 18-26, and no frame received or read yet
InitQueue ==
    /\ frame_queue = <<>>
    /\ last_frame = 0
    /\ recv_pc = "recv"
    /\ img = 0
    /\ received = 0
    /\ read_out = NoFrame("none")
    /\ inserted = {}
    /\ consumed = {}

\* the scoring service after init_db(): both tables empty, nothing handled
NoRequest == [op |-> "none", username |-> "", team |-> "", stream_url |-> ""]
NoReply == [status |-> 0, detail |-> "", id |-> 0]
InitBackend ==
    /\ players = <<>>
    /\ hits = <<>>
    /\ request = NoRequest
    /\ reply = NoReply

\* what the signaling request of _connect got: a response with a status, or
\* an aiohttp.ClientError
SignalingReply(kind, status) == [kind |-> kind, status |-> status]
NoSignalingReply == SignalingReply("none", 0)
SignalingReplies ==
    {SignalingReply("response", c) : c \in {200, 201, 202, 404, 500}}
    \cup {SignalingReply("client_error", 0)}

\* self.error = None
NoError == "None"

\* the steps of a handshake that succeeded, lines 77-99
CompleteHandshake ==
    <<"offer", "local_description", "gathering_complete", "post", "remote_description">>

\* WebRTCClient.__init__, lines 18-26: no thread, no peer connection
NoPc == [state |-> "none", conn |-> "new", remote |-> FALSE]
InitSession ==
    /\ threads = [t \in 1..MaxStarts |-> "unstarted"]
    /\ pcs = [t \in 1..MaxStarts |-> NoPc]
    /\ self_pc = 0
    /\ self_thread = 0

\* main, lines 709-733: the first connection is made, the frame loop starts
InitMain ==
    /\ cap = "open"
    /\ consecutive_failures = 0
    /\ main_ev = "none"
    /\ stream_up = TRUE

\* a client that start() has connected: its thread keeps the connection
\* alive (lines 107-109) and stop() has not been called
ConnectedClient ==
    /\ client_running = TRUE
    /\ connected = TRUE
    /\ conn_pc = "keepalive"
    /\ pc = "open"
    /\ conn_state = "connected"
    /\ start_pc = "returned"
    /\ stop_pc = "idle"
    /\ error = NoError
    /\ handshake = CompleteHandshake
    /\ signal_reply = SignalingReply("response", 201)

IdleAux == IdleFn /\ InitQueue /\ ConnectedClient

Init ==
    /\ InitDetector
    /\ hit_in = [image |-> NoImage, hand_bbox |-> NoBox, player_id |-> 1]
    /\ hit_out = HitIdle
    /\ InitMain
    /\ InitBackend
    /\ InitSession
    /\ IdleAux

Next == Tick \/ Frame

Spec == Init /\ [][Next]_vars


----------------------------------------------------------------------------
(* Hit validation and overlay classification as functions of their input:  *)
(* analyze_shot and detect_and_draw_person applied to one image, one hand  *)
(* box and one player id drawn from bounded sets.                          *)

HandBoxes == {NoBox, <<120, 80, 160, 120>>, <<90, 90, 110, 110>>}

\* Person boxes in a 200 x 200 image (crosshair at (100, 100)); against the
\* hand box <<120, 80, 160, 120>> of area 1600 they intersect in
\*   480 (exactly 0.3), 520, 0 (touching), 0, 400, 1600, 1600 pixels.
BoxAtThreshold == <<60, 40, 132, 180>>
BoxOverThreshold == <<60, 40, 133, 180>>
BoxTouching == <<60, 40, 120, 180>>
BoxMiss == <<0, 0, 99, 99>>
BoxCorner == <<100, 100, 140, 190>>
BoxOnHand == <<110, 70, 170, 130>>
BoxFull == <<0, 0, 200, 200>>
\* a box on the crosshair, 2 pixels high: its upper-torso region is empty
BoxSliver == <<90, 99, 110, 101>>

HitPersons ==
    {Person(b, 600, 0) : b \in {BoxOverThreshold, BoxTouching, BoxMiss, BoxCorner, BoxOnHand}}
    \cup {Person(BoxSliver, 0, 0)}
    \cup {Person(BoxAtThreshold, c[1], c[2]) :
             c \in {<<0, 0>>, <<500, 0>>, <<501, 0>>, <<0, 600>>, <<601, 600>>, <<600, 600>>}}
    \cup {Person(BoxFull, 540, 0), Person(BoxFull, 541, 0)}

HitImages == {NoImage} \cup {Image(FrameShape, ps) : ps \in SeqsUpTo(HitPersons, MaxDets)}

\* player ids given to analyze_shot; 3 is not in PLAYER_CONFIG
HitPlayerIds == {1, 2, 3}

HitInputs ==
    [image : HitImages, hand_bbox : HandBoxes, player_id : HitPlayerIds]

InitHit ==
    /\ InitDetector
    /\ player_id = 1
    /\ hit_in \in HitInputs
    /\ hit_out = HitIdle
    /\ InitMain
    /\ InitBackend
    /\ InitSession
    /\ IdleAux

\* analyze_shot(image_path, hand_bbox, player_id), lines 197-200
AnalyzeShot ==
    /\ ~hit_out.done
    /\ \E hit \in {analyze_shot(hit_in.image, hit_in.hand_bbox, hit_in.player_id)} :
         hit_out' = [hit_out EXCEPT !.done = TRUE, !.valid = hit.valid, !.sent = hit.sent]
    /\ UNCHANGED <<frame_vars, hit_in, shot_vars, main_vars, aux_vars>>

\* detect_and_draw_person(frame, hand_bboxes) on a readable image
DrawPersons ==
    /\ ~hit_out.drawn
    /\ hit_in.image.readable
    /\ \E counts \in {detect_and_draw_person(hit_in.image.shape, hit_in.image.persons,
                          IF hit_in.hand_bbox = NoBox THEN <<>> ELSE <<hit_in.hand_bbox>>)} :
         /\ yellow_count' = counts.yellow_count
         /\ green_count' = counts.green_count
    /\ hit_out' = [hit_out EXCEPT !.drawn = TRUE]
    /\ UNCHANGED <<player_id, prev_thumb_y, is_cocked, last_shot_time, kill_streak,
                   now, hits_sent, shot_fired, finger_gun_detected, frame_hand,
                   frame_thumb_y, ev, hand_shot_time, hit_in, shot_vars,
                   main_vars, aux_vars>>

NextHit == AnalyzeShot \/ DrawPersons

SpecHit == InitHit /\ [][NextHit]_vars


----------------------------------------------------------------------------
(* The gesture state machine (Spec).  A step of the frame loop that leaves *)
(* the clock alone is a process_frame call; frame_hand and frame_thumb_y   *)
(* then tell which hand detect_cock_motion was called for, and where its   *)
(* thumb tip was.                                                          *)

\* this step is a call of detect_cock_motion for hand id h
Called(h) == now' = now /\ finger_gun_detected' /\ frame_hand' = h

\* hand id h has a GestureState
Known(h) == h \in DOMAIN prev_thumb_y /\ h \in DOMAIN is_cocked

\* this step is a call in which the Cocked hand h moves its thumb down by
\* more than the threshold
FiringMotion(h) ==
    /\ Called(h)
    /\ Known(h)
    /\ is_cocked[h]
    /\ frame_thumb_y' - prev_thumb_y[h] > CockThreshold

\* this step is a call in which the known hand h moves its thumb up by more
\* than the threshold
CockMotion(h) ==
    /\ Called(h)
    /\ Known(h)
    /\ prev_thumb_y[h] - frame_thumb_y' > CockThreshold

\* C1: every call of detect_cock_motion that emits a shot event is for a
\* hand that was Cocked immediately before the call, and at least the
\* cooldown has elapsed since that hand's previous shot event.
C1_ShotNeedsCockAndCooldown ==
    [][\A h \in HandIds :
          (Called(h) /\ shot_fired')
              => /\ Known(h)
                 /\ is_cocked[h]
                 /\ now - hand_shot_time[h] >= ShotCooldown]_vars

\* a second shot event of hand Left, both shots having been valid hits
C1_Witness ==
    /\ shot_fired
    /\ frame_hand = "Left"
    /\ hand_shot_time["Left"] = now
    /\ hand_shot_time["Right"] = 0
    /\ kill_streak = 2

\* C2 as claimed: the cooldown is per hand id, so a firing motion of a
\* Cocked hand emits a shot event whenever the cooldown has elapsed since
\* that same hand's last shot, whenever any other hand fired.
C2_PerHandCooldown ==
    [][\A h \in HandIds :
          (FiringMotion(h) /\ now - hand_shot_time[h] >= ShotCooldown)
              => shot_fired']_vars

\* C2 amended: the cooldown is one value for the whole detector: a firing
\* motion of a Cocked hand emits a shot event if and only if the cooldown
\* has elapsed since the last shot event of every hand id.
C2_DetectorWideCooldown ==
    [][\A h \in HandIds :
          FiringMotion(h)
              => (shot_fired' <=>
                    \A g \in HandIds : now - hand_shot_time[g] >= ShotCooldown)]_vars

\* hand Right, which has never fired, is refused a shot because hand Left
\* fired less than the cooldown ago
C2_Witness ==
    /\ ev = "suppressed"
    /\ frame_hand = "Right"
    /\ hand_shot_time["Right"] = 0
    /\ hand_shot_time["Left"] > 0
    /\ now - hand_shot_time["Left"] < ShotCooldown

\* C3: a firing motion of a Cocked hand returns the hand to Idle whether or
\* not a shot event is emitted; a firing motion refused by the cooldown
\* emits nothing and still consumes the cock.
C3_FiringMotionUncocks ==
    [][\A h \in HandIds :
          FiringMotion(h)
              => /\ Known(h)'
                 /\ ~is_cocked'[h]
                 /\ (now - last_shot_time < ShotCooldown => ~shot_fired')]_vars

\* a firing motion was refused by the cooldown and the hand is Idle
C3_Witness ==
    /\ ev = "suppressed"
    /\ frame_hand \in DOMAIN is_cocked
    /\ ~is_cocked[frame_hand]
    /\ ~shot_fired
    /\ now - last_shot_time < ShotCooldown

C5_FirstObservation ==
    [][\A h \in HandIds :
          (Called(h) /\ h \notin DOMAIN prev_thumb_y)
              => /\ Known(h)'
                 /\ ~is_cocked'[h]
                 /\ prev_thumb_y'[h] = frame_thumb_y'
                 /\ ~shot_fired'
                 /\ last_shot_time' = last_shot_time]_vars

\* hand Right is observed for the first time, after hand Left has fired
C5_Witness ==
    /\ ev = "init"
    /\ frame_hand = "Right"
    /\ hand_shot_time["Left"] > 0
    /\ DOMAIN prev_thumb_y = HandIds

\* C6: the hand ids with a stored thumb position are the hand ids with a
\* stored cocked flag; an id gets its record in the first call made for it
\* and no record is ever removed.
C6_OneStatePerHand ==
    [][/\ DOMAIN prev_thumb_y = DOMAIN is_cocked
       /\ DOMAIN prev_thumb_y' = DOMAIN is_cocked'
       /\ DOMAIN prev_thumb_y \subseteq DOMAIN prev_thumb_y'
       /\ \A h \in HandIds :
             /\ Called(h) => h \in DOMAIN prev_thumb_y'
             /\ (h \in DOMAIN prev_thumb_y' \ DOMAIN prev_thumb_y) => Called(h)]_vars

\* both hand ids have a record and one of them has fired since
C6_Witness ==
    /\ DOMAIN prev_thumb_y = HandIds
    /\ DOMAIN is_cocked = HandIds
    /\ shot_fired

\* C7: a frame without a hand, or whose selected hand does not make the
\* finger-gun pose, changes no cocked flag, no stored thumb position and no
\* shot time, and emits no shot event.
C7_NoPoseNoMotion ==
    [][(now' = now /\ ~finger_gun_detected')
          => /\ UNCHANGED <<prev_thumb_y, is_cocked, last_shot_time, hand_shot_time>>
             /\ ~shot_fired']_vars

\* a frame without the pose has been processed while a hand is Cocked
C7_Witness ==
    /\ ev = "none"
    /\ ~finger_gun_detected
    /\ \E h \in DOMAIN is_cocked : is_cocked[h]


----------------------------------------------------------------------------
(* Hit validation (SpecHit) *)

HitShape == hit_in.image.shape
HitPersonList == hit_in.image.persons

\* the shooter's configured target team
HitTargetTeam == IF hit_in.player_id = 2 THEN "green" ELSE "yellow"

\* detections that are not self-excluded and whose box holds the crosshair
Qualifying ==
    {i \in 1..Len(HitPersonList) :
        /\ ~(hit_in.hand_bbox # NoBox
             /\ boxes_overlap(hit_in.hand_bbox, HitPersonList[i].box))
        /\ crosshair_in(HitShape, HitPersonList[i].box)}

\* the first of them in the detector's output order, 0 if there is none
Selected == IF Qualifying = {} THEN 0 ELSE SetMin(Qualifying)

\* C8: in target-team mode the hit is valid if and only if the image was
\* read, a non-excluded person box holding the crosshair was selected, and
\* the team resolved for that box is the shooter's target team.
C8_ValidIffTargetTeam ==
    hit_out.done =>
        (hit_out.valid <=>
            /\ hit_in.image.readable
            /\ Selected # 0
            /\ resolved_team(HitShape, HitPersonList[Selected]) = HitTargetTeam)

\* player 2 (target green) hits a person whose team is the default one,
\* selected after a first detection that does not qualify
C8_Witness ==
    /\ hit_out.done
    /\ hit_out.valid
    /\ hit_in.player_id = 2
    /\ Selected = 2
    /\ classify_person_team(HitShape, HitPersonList[2]) = None

\* C9: the outcome is that of the first qualifying detection alone: the
\* result for the whole list is the result for the list holding only that
\* detection, and a list without a qualifying detection is a miss.
C9_FirstQualifyingDecides ==
    (hit_out.done /\ hit_in.image.readable) =>
        IF Selected = 0
        THEN ~hit_out.valid /\ ~hit_out.sent
        ELSE LET alone == analyze_shot(Image(HitShape, <<HitPersonList[Selected]>>),
                                       hit_in.hand_bbox, hit_in.player_id)
             IN  hit_out.valid = alone.valid /\ hit_out.sent = alone.sent

\* two detections qualify, of different teams, and the second one is of the
\* target team: the shot is invalid all the same
C9_Witness ==
    /\ hit_out.done
    /\ ~hit_out.valid
    /\ Qualifying = {1, 2}
    /\ resolved_team(HitShape, HitPersonList[2]) = HitTargetTeam
    /\ resolved_team(HitShape, HitPersonList[1]) # HitTargetTeam

\* number of unit cells the intervals [a1, a2) and [b1, b2) share
Overlap1D(a1, a2, b1, b2) == Cardinality((a1 .. (a2 - 1)) \cap (b1 .. (b2 - 1)))

IntersectionArea(b1, b2) ==
    Overlap1D(b1[1], b1[3], b2[1], b2[3]) * Overlap1D(b1[2], b1[4], b2[2], b2[4])

\* intersection area over hand-box area strictly above 0.3
AboveThreshold(hand, box) ==
    /\ hand # NoBox
    /\ 10 * IntersectionArea(hand, box) > 3 * IntersectionArea(hand, hand)

KeptPersons ==
    {i \in 1..Len(HitPersonList) : ~AboveThreshold(hit_in.hand_bbox, HitPersonList[i].box)}

KeptOnCrosshair == {i \in KeptPersons : crosshair_in(HitShape, HitPersonList[i].box)}

\* C10: a person box is excluded if and only if its intersection with the
\* hand box, divided by the hand-box area, is strictly above 0.3: the
\* overlay counts exactly the other boxes, and hit validation decides on
\* the first of the other boxes that holds the crosshair.
C10_SelfExclusion ==
    /\ hit_out.drawn => yellow_count + green_count = Cardinality(KeptPersons)
    /\ (hit_out.done /\ hit_in.image.readable) =>
          (hit_out.valid <=>
              /\ KeptOnCrosshair # {}
              /\ resolved_team(HitShape, HitPersonList[SetMin(KeptOnCrosshair)])
                     = HitTargetTeam)

\* a box over the threshold is skipped and a box exactly at the threshold
\* is kept, counted and hit
C10_Witness ==
    /\ hit_out.done
    /\ hit_out.drawn
    /\ hit_in.hand_bbox = <<120, 80, 160, 120>>
    /\ HitPersonList = <<Person(BoxOverThreshold, 600, 0), Person(BoxAtThreshold, 601, 600)>>
    /\ 10 * IntersectionArea(hit_in.hand_bbox, BoxAtThreshold)
           = 3 * IntersectionArea(hit_in.hand_bbox, hit_in.hand_bbox)
    /\ hit_in.player_id = 1
    /\ hit_out.valid
    /\ yellow_count = 1
    /\ green_count = 0


----------------------------------------------------------------------------
(* Streak and hit reporting (Spec).  A step that leaves the clock alone is *)
(* a process_frame call; shot_fired, shot_valid, hits_sent, response and   *)
(* report_ok then describe that call.                                      *)

\* length of the run of valid hits that ends the log
RECURSIVE ValidRun(_)
ValidRun(log) ==
    IF log = <<>> THEN 0
    ELSE IF log[Len(log)] THEN 1 + ValidRun(SubSeq(log, 1, Len(log) - 1))
    ELSE 0

\* C11: a shot event validated as a valid hit raises the kill streak by
\* exactly 1, a shot event that is an invalid hit or a miss sets it to 0,
\* and after every step the streak is the number of valid hits since the
\* most recent invalid hit or miss (or since start).
C11_KillStreak ==
    [][/\ (now' = now /\ shot_fired' /\ shot_valid') => kill_streak' = kill_streak + 1
       /\ (now' = now /\ shot_fired' /\ ~shot_valid') => kill_streak' = 0
       /\ kill_streak' = ValidRun(shot_log')]_vars

\* a valid hit took the streak to 1 and the next shot event, not a valid
\* hit, has set it back to 0
C11_Witness ==
    /\ shot_fired
    /\ ~shot_valid
    /\ shot_log = <<TRUE, FALSE>>
    /\ kill_streak = 0

\* C12: a process_frame call makes exactly one hit report if it emits a shot
\* event that is validated as a valid hit, and none otherwise: none for an
\* invalid hit, none for a miss, none in a frame without a shot event.
C12_ReportOncePerValidHit ==
    [][now' = now =>
          hits_sent' = (IF shot_fired' /\ shot_valid' THEN 1 ELSE 0)]_vars

\* player 2 has made a valid hit, which was reported once and acknowledged
C12_Witness ==
    /\ shot_fired
    /\ shot_valid
    /\ hits_sent = 1
    /\ report_ok
    /\ player_id = 2

\* C13: whatever the hit-report request gives (any status code, or a
\* transport exception), the frame loop keeps running, the shot is still
\* returned as a valid hit and the kill streak still goes up by 1, as it
\* does when the report succeeds.
C13_ReportFailureNotFatal ==
    [][(now' = now /\ hits_sent' = 1)
          => /\ running'
             /\ shot_valid'
             /\ kill_streak' = kill_streak + 1]_vars

\* the second valid hit in a row met a transport exception: the report
\* failed, the streak is 2 and the loop runs
C13_Witness ==
    /\ shot_fired
    /\ hits_sent = 1
    /\ response = TransportError
    /\ ~report_ok
    /\ shot_valid
    /\ kill_streak = 2
    /\ running

\* a response with a status code 200..299
Is2xx(resp) == resp.kind = "status" /\ resp.status_code \in 200..299

\* C14 as claimed: a hit report returns success exactly for the responses
\* with a 2xx status (201 included), and failure, raising nothing, for every
\* other status and for a transport exception.
C14_SuccessOnEvery2xx ==
    hits_sent = 1 => (running /\ (report_ok <=> Is2xx(response)))


----------------------------------------------------------------------------
(* Default team (SpecHit) *)

\* kept detections for which the classifier finds no colour
KeptUnclassified ==
    {i \in KeptPersons : classify_person_team(HitShape, HitPersonList[i]) = None}

\* C15: a detection for which the classifier finds no colour (an empty
\* upper-torso region included) is treated as team green, not dropped and
\* not left undefined: the overlay counts it as green, and when it is the box
\* hit validation decides on, the hit is valid exactly for a shooter whose
\* target team is green.
C15_DefaultTeamGreen ==
    /\ hit_out.drawn =>
          /\ yellow_count = Cardinality(
                 {i \in KeptPersons :
                     classify_person_team(HitShape, HitPersonList[i]) = "yellow"})
          /\ green_count = Cardinality(
                 {i \in KeptPersons :
                     classify_person_team(HitShape, HitPersonList[i]) = "green"})
                 + Cardinality(KeptUnclassified)
    /\ (hit_out.done /\ hit_in.image.readable /\ KeptOnCrosshair # {}
            /\ SetMin(KeptOnCrosshair) \in KeptUnclassified)
          => (hit_out.valid <=> HitTargetTeam = "green")

\* the only detection has an empty upper-torso region: it is counted green
\* and player 2, whose target team is green, hits it
C15_Witness ==
    /\ hit_out.done
    /\ hit_out.drawn
    /\ HitPersonList = <<Person(BoxSliver, 0, 0)>>
    /\ roi_size(HitShape, BoxSliver) = 0
    /\ KeptUnclassified = {1}
    /\ hit_in.player_id = 2
    /\ hit_out.valid
    /\ green_count = 1
    /\ yellow_count = 0


----------------------------------------------------------------------------
(* The team classifier as a function of its input: classify_person_team    *)
(* applied to one image shape and one person detection.                    *)

\* numbers of mask pixels in the upper-torso region: around the minimum
\* area (500) and around 3% of the region of BoxFull (540 of 18000)
PixelCounts == {0, 500, 501, 540, 541, 600}

ClassifyInputs ==
    {[shape |-> FrameShape, det |-> Person(b, yp, gp)] :
        b \in {BoxAtThreshold, BoxFull}, yp \in PixelCounts, gp \in PixelCounts}
    \cup {[shape |-> FrameShape, det |-> Person(BoxSliver, 0, 0)]}

InitClassify ==
    /\ InitDetector
    /\ player_id = 1
    /\ hit_in = [image |-> NoImage, hand_bbox |-> NoBox, player_id |-> 1]
    /\ hit_out = HitIdle
    /\ InitMain
    /\ InitBackend
    /\ InitSession
    /\ InitQueue
    /\ ConnectedClient
    /\ fn_in \in ClassifyInputs
    /\ fn_out = [done |-> FALSE, team |-> None]

\* classify_person_team(frame, x1, y1, x2, y2, mask_yellow, mask_green)
ClassifyPerson ==
    /\ ~fn_out.done
    /\ fn_out' = [done |-> TRUE,
                  team |-> classify_person_team(fn_in.shape, fn_in.det)]
    /\ UNCHANGED <<frame_vars, hit_vars, shot_vars, main_vars, queue_vars,
                   client_vars, effect_vars, backend_vars, handshake_vars,
                   session_vars, fn_in>>

NextClassify == ClassifyPerson

SpecClassify == InitClassify /\ [][NextClassify]_vars

\* a mask of the given pixel count covers strictly more than 3% of a region
\* of the given size and holds strictly more than 500 pixels
ColourPresent(pixels, region) == 100 * pixels > 3 * region /\ pixels > 500

\* C16: with "present" as above, the classifier returns the one colour that
\* is present if exactly one is, the colour with the larger pixel count if
\* both are present, and no team if neither is present.
C16_DecisionRule ==
    fn_out.done =>
        LET region == roi_size(fn_in.shape, fn_in.det.box)
            yp == fn_in.det.yellow_pixels
            gp == fn_in.det.green_pixels
            yellow == ColourPresent(yp, region)
            green == ColourPresent(gp, region)
        IN  /\ (yellow /\ ~green) => fn_out.team = "yellow"
            /\ (green /\ ~yellow) => fn_out.team = "green"
            /\ (yellow /\ green /\ yp > gp) => fn_out.team = "yellow"
            /\ (yellow /\ green /\ gp > yp) => fn_out.team = "green"
            /\ (~yellow /\ ~green) => fn_out.team = None

\* yellow holds 500 pixels, not strictly more, and green 541 of a region of
\* 18000, just above 3%: only green is present
C16_Witness ==
    /\ fn_out.done
    /\ fn_in.det = Person(BoxFull, 500, 541)
    /\ roi_size(fn_in.shape, BoxFull) = 18000
    /\ fn_out.team = "green"


----------------------------------------------------------------------------
(* The hand selector as a function of its input: get_closest_hand applied  *)
(* to one list of hands.                                                    *)

MaxHands == 3           \* longest list of hands given to get_closest_hand

\* how far the wrist reaches to the left, in hundredths of the frame width.
\* In the 200 pixel wide frame the padded boxes start at x = 110, 70, 0 and
\* 0: the last two are cut at the frame's edge to the same box.
Reaches == {0, 20, 60, 70}

SelectorHands == {Hand("Right", "gun_x", 50, r) : r \in Reaches}

InitHand ==
    /\ InitDetector
    /\ player_id = 1
    /\ hit_in = [image |-> NoImage, hand_bbox |-> NoBox, player_id |-> 1]
    /\ hit_out = HitIdle
    /\ InitMain
    /\ InitBackend
    /\ InitSession
    /\ InitQueue
    /\ ConnectedClient
    /\ fn_in \in SeqsUpTo(SelectorHands, MaxHands)
    /\ fn_out = [done |-> FALSE, closest_idx |-> 0]

\* get_closest_hand(results.multi_hand_landmarks, frame.shape)
GetClosestHand ==
    /\ ~fn_out.done
    /\ fn_out' = [done |-> TRUE, closest_idx |-> get_closest_hand(fn_in, FrameShape)]
    /\ UNCHANGED <<frame_vars, hit_vars, shot_vars, main_vars, queue_vars,
                   client_vars, effect_vars, backend_vars, handshake_vars,
                   session_vars, fn_in>>

NextHand == GetClosestHand

SpecHand == InitHand /\ [][NextHand]_vars

\* pixel columns and rows of the frame within 30 pixels of the hand's
\* landmarks: the padded box, cut at the frame's edges
PaddedColumns(lm) ==
    {x \in 0 .. (FrameShape[2] - 1) :
        /\ \E i \in DOMAIN lm : (lm[i].x * FrameShape[2]) \div 100 - 30 <= x
        /\ \E i \in DOMAIN lm : x < (lm[i].x * FrameShape[2]) \div 100 + 30}
PaddedRows(lm) ==
    {y \in 0 .. (FrameShape[1] - 1) :
        /\ \E i \in DOMAIN lm : (lm[i].y * FrameShape[1]) \div 100 - 30 <= y
        /\ \E i \in DOMAIN lm : y < (lm[i].y * FrameShape[1]) \div 100 + 30}
PaddedArea(hand) ==
    Cardinality(PaddedColumns(hand.landmark)) * Cardinality(PaddedRows(hand.landmark))

\* the selected index is that of a hand of maximal area, the first of them
FirstLargestSelected ==
    IF fn_in = <<>> THEN fn_out.closest_idx = 0
    ELSE /\ fn_out.closest_idx \in 1..Len(fn_in)
         /\ \A j \in 1..Len(fn_in) :
               PaddedArea(fn_in[j]) <= PaddedArea(fn_in[fn_out.closest_idx])
         /\ \A j \in 1..(fn_out.closest_idx - 1) :
               PaddedArea(fn_in[j]) < PaddedArea(fn_in[fn_out.closest_idx])

\* C17: get_closest_hand returns the first hand of maximal padded,
\* frame-clamped bounding-box area of a non-empty list and none for an empty
\* list, and it changes no field of the detector.
C17_ClosestHand ==
    [][fn_out'.done => (FirstLargestSelected' /\ UNCHANGED <<detector_vars, fn_in>>)]_vars

\* three hands: the second and the third are cut to the same, largest box,
\* and the second is selected
C17_Witness ==
    /\ fn_out.done
    /\ Len(fn_in) = 3
    /\ PaddedArea(fn_in[1]) < PaddedArea(fn_in[2])
    /\ PaddedArea(fn_in[2]) = PaddedArea(fn_in[3])
    /\ fn_in[2] # fn_in[3]
    /\ fn_out.closest_idx = 2


----------------------------------------------------------------------------
(* webrtc_client.py : the frame queue between _receive_frames (producer,   *)
(* on the asyncio thread) and read (consumer, on the caller's thread).     *)
(* Frames are numbered 1, 2, ... in the order track.recv() gives them.     *)
(* Each queue.Queue operation is atomic; the two threads interleave        *)
(* between operations.  Under SpecClient the client is connected and       *)
(* running throughout.                                                      *)

MaxFrames == 5          \* number of frames track.recv() gives
maxsize == 2            \* queue.Queue(maxsize=2)

QueueIdle == UNCHANGED <<frame_vars, hit_vars, shot_vars, main_vars, fn_vars,
                         client_vars, effect_vars, backend_vars,
                         handshake_vars, session_vars>>

\* lines 117-126: the loop goes on while self.running; track.recv() gives a
\* frame and put_nowait is tried; on queue.Full the handler of line 128 is
\* entered
Recv ==
    /\ recv_pc = "recv"
    /\ client_running
    /\ received < MaxFrames
    /\ received' = received + 1
    /\ img' = received + 1
    /\ IF Len(frame_queue) < maxsize
       THEN /\ frame_queue' = Append(frame_queue, received + 1)
            /\ inserted' = inserted \cup {received + 1}
            /\ recv_pc' = "set_last"
       ELSE /\ recv_pc' = "full"
            /\ UNCHANGED <<frame_queue, inserted>>
    /\ UNCHANGED <<last_frame, read_out, consumed>>
    /\ QueueIdle

\* lines 127 and 133: self.last_frame = img
SetLast ==
    /\ recv_pc = "set_last"
    /\ last_frame' = img
    /\ recv_pc' = "recv"
    /\ UNCHANGED <<frame_queue, img, received, read_out, inserted, consumed>>
    /\ QueueIdle

\* lines 130-131 and 134-135: get_nowait takes the oldest frame; if the
\* queue is empty by now, queue.Empty is raised and passed over, and the
\* loop goes on to the next track.recv()
DropOldest ==
    /\ recv_pc = "full"
    /\ IF frame_queue # <<>>
       THEN /\ frame_queue' = Tail(frame_queue)
            /\ recv_pc' = "put"
       ELSE /\ recv_pc' = "recv"
            /\ UNCHANGED frame_queue
    /\ UNCHANGED <<last_frame, img, received, read_out, inserted, consumed>>
    /\ QueueIdle

\* line 132: put_nowait after the oldest frame was taken; a queue.Full here
\* is caught at line 140 and ends the loop
PutAfterDrop ==
    /\ recv_pc = "put"
    /\ IF Len(frame_queue) < maxsize
       THEN /\ frame_queue' = Append(frame_queue, img)
            /\ inserted' = inserted \cup {img}
            /\ recv_pc' = "set_last"
       ELSE /\ recv_pc' = "stopped"
            /\ UNCHANGED <<frame_queue, inserted>>
    /\ UNCHANGED <<last_frame, img, received, read_out, consumed>>
    /\ QueueIdle

\* lines 140-143: track.recv() raises (the track has ended) and the loop is
\* left
RecvEnds ==
    /\ recv_pc = "recv"
    /\ recv_pc' = "stopped"
    /\ UNCHANGED <<frame_queue, last_frame, img, received, read_out, inserted,
                   consumed>>
    /\ QueueIdle

\* variant: read() does not look at self.running and self.connected
Read_IgnoresFlags ==
    /\ IF frame_queue # <<>>
       THEN /\ read_out' = ReadResult(TRUE, Head(frame_queue), "queue")
            /\ frame_queue' = Tail(frame_queue)
            /\ consumed' = consumed \cup {Head(frame_queue)}
       ELSE /\ read_out' = (IF last_frame # 0
                            THEN ReadResult(TRUE, last_frame, "last")
                            ELSE NoFrame("empty"))
            /\ UNCHANGED <<frame_queue, consumed>>
    /\ UNCHANGED <<last_frame, recv_pc, img, received, inserted>>
    /\ QueueIdle

\* variant: read() returns the last frame whenever there is one, and takes
\* a queued frame only before that
Read_PrefersLast ==
    /\ IF ~client_running \/ ~connected
       THEN /\ read_out' = NoFrame("closed")
            /\ UNCHANGED <<frame_queue, consumed>>
       ELSE IF last_frame # 0
       THEN /\ read_out' = ReadResult(TRUE, last_frame, "last")
            /\ UNCHANGED <<frame_queue, consumed>>
       ELSE IF frame_queue # <<>>
       THEN /\ read_out' = ReadResult(TRUE, Head(frame_queue), "queue")
            /\ frame_queue' = Tail(frame_queue)
            /\ consumed' = consumed \cup {Head(frame_queue)}
       ELSE /\ read_out' = NoFrame("empty")
            /\ UNCHANGED <<frame_queue, consumed>>
    /\ UNCHANGED <<last_frame, recv_pc, img, received, inserted>>
    /\ QueueIdle

\* read(), lines 174-189: (False, None) unless the client is running and
\* connected; else the oldest queued frame; if none comes within the
\* timeout, a copy of the last frame, or (False, None) if there is none.
Read ==
    /\ IF ~client_running \/ ~connected
       THEN /\ read_out' = NoFrame("closed")
            /\ UNCHANGED <<frame_queue, consumed>>
       ELSE IF frame_queue # <<>>
       THEN /\ read_out' = ReadResult(TRUE, Head(frame_queue), "queue")
            /\ frame_queue' = Tail(frame_queue)
            /\ consumed' = consumed \cup {Head(frame_queue)}
       ELSE /\ read_out' = (IF last_frame # 0
                            THEN ReadResult(TRUE, last_frame, "last")
                            ELSE NoFrame("empty"))
            /\ UNCHANGED <<frame_queue, consumed>>
    /\ UNCHANGED <<last_frame, recv_pc, img, received, inserted>>
    /\ QueueIdle

InitClient ==
    /\ InitDetector
    /\ player_id = 1
    /\ hit_in = [image |-> NoImage, hand_bbox |-> NoBox, player_id |-> 1]
    /\ hit_out = HitIdle
    /\ InitMain
    /\ InitBackend
    /\ InitSession
    /\ IdleFn
    /\ InitQueue
    /\ ConnectedClient

Producer == Recv \/ SetLast \/ DropOldest \/ PutAfterDrop \/ RecvEnds

NextClient == Producer \/ Read

SpecClient == InitClient /\ [][NextClient]_vars

\* C18 as claimed: the queue never holds more than 2 frames; the producer
\* never waits (whenever it holds a frame it has a step to take); and a frame
\* that met a full queue is handled by removing the oldest queued frame and
\* inserting the new one, so that three frames received with no read in
\* between leave the second and the third in the queue.
C18_BoundedDropOldest ==
    [][/\ Len(frame_queue') <= 2
       /\ (recv_pc \in {"full", "put", "set_last"}) => ENABLED Producer
       /\ (recv_pc = "full" /\ recv_pc' # "full")
             => (frame_queue # <<>> /\ frame_queue' = Tail(frame_queue)
                 /\ recv_pc' = "put")
       /\ (recv_pc = "put" /\ recv_pc' # "put")
             => frame_queue' = Append(frame_queue, img)
       /\ (received' = 3 /\ recv_pc' = "recv" /\ consumed' = {})
             => frame_queue' = <<2, 3>>]_vars

\* C19 as claimed: whatever the interleaving with read(), once the producer
\* is done with a frame and waits for the next, every frame it has received
\* was put into the queue and the newest of them is the recorded last
\* frame: no received frame is discarded before it was queued.
C19_EveryFrameInserted ==
    recv_pc = "recv" => (inserted = 1..received /\ last_frame = received)


----------------------------------------------------------------------------
(* finger_gun_detector.py : main, the frame loop and the reconnect loop    *)
(* (lines 732-800).  The wall clock stands still here; frames come from a  *)
(* small set.                                                               *)

max_failures == 30      \* max_failures = 30

\* what cap.read() gives when it succeeds
MainFrames ==
    {[hands |-> hs, persons |-> <<>>] :
        hs \in {<<>>, <<Hand("Right", "gun_x", 50, 0)>>, <<Hand("Right", "gun_x", 53, 0)>>}}

\* lines 735 and 776-779: cap.read() gives a frame, which is processed
ReadFrame == \E f \in MainFrames : ProcessFrame(f)

MaxReentries == 2       \* failed opens allowed after the counter reached max_failures

\* variant: the capture is released only when the counter has passed
\* max_failures
ReadFail_LateTeardown ==
    /\ running
    /\ cap \in {"open", "unopened"}
    /\ ~stream_up \/ cap = "unopened"
    /\ consecutive_failures' = consecutive_failures + 1
    /\ IF consecutive_failures + 1 > max_failures
       THEN cap' = "none" /\ main_ev' = "teardown"
       ELSE cap' = cap /\ main_ev' = "fail"
    /\ UNCHANGED <<stream_up, frame_vars, hit_vars, shot_vars, aux_vars>>

\* lines 735-746 and 771-773: cap.read() fails, as it may on an unavailable
\* stream and as it always does on a capture that did not open; at
\* max_failures failures in a row the capture is released, cap is set to
\* None and the reconnect loop is entered
ReadFail ==
    /\ running
    /\ cap \in {"open", "unopened"}
    /\ ~stream_up \/ cap = "unopened"
    /\ consecutive_failures' = consecutive_failures + 1
    /\ IF consecutive_failures + 1 >= max_failures
       THEN cap' = "none" /\ main_ev' = "teardown"
       ELSE cap' = cap /\ main_ev' = "fail"
    /\ UNCHANGED <<stream_up, frame_vars, hit_vars, shot_vars, aux_vars>>

\* lines 747-770: one pass of the loop "while cap is None".  cap becomes a
\* new capture object, which is opened or not, and if opened its test frame
\* is read or not.  Read: "Reconnected", counter reset, break.  Opened but
\* not read: released, cap = None.  Not opened: cap stays the capture
\* object.  A pass without success then sleeps 2 s and looks at the quit key
\* (cap = None, break, and main ends at line 770); without the key the loop
\* condition is tested again, and a cap that is not None leaves the loop for
\* the frame loop (lines 772-773).
ReconnectAttempt ==
    /\ running
    /\ cap = "none"
    /\ \E opened \in (IF stream_up THEN {TRUE} ELSE BOOLEAN),
          test_frame \in (IF stream_up THEN {TRUE} ELSE BOOLEAN),
          quit \in BOOLEAN :
          IF opened /\ test_frame
          THEN /\ cap' = "open"
               /\ consecutive_failures' = 0
               /\ main_ev' = "reconnected"
               /\ UNCHANGED running
          ELSE /\ (~opened /\ ~quit)
                     => consecutive_failures < max_failures + MaxReentries
               /\ cap' = (IF opened \/ quit THEN "none" ELSE "unopened")
               /\ running' = ~quit
               /\ main_ev' = (IF quit THEN "quit" ELSE "attempt_failed")
               /\ UNCHANGED consecutive_failures
    /\ UNCHANGED <<stream_up, frame_vars, hit_vars, shot_valid, response,
                   report_ok, shot_log, detector_calls, shot_call, aux_vars>>

\* lines 796-803: the quit key after a processed frame ends the loop and
\* the capture is released
Quit ==
    /\ running
    /\ cap = "open"
    /\ main_ev = "frame"
    /\ running' = FALSE
    /\ cap' = "none"
    /\ main_ev' = "quit"
    /\ UNCHANGED <<stream_up, frame_vars, hit_vars, shot_valid, response,
                   report_ok, shot_log, detector_calls, shot_call,
                   consecutive_failures, aux_vars>>

\* environment: the stream becomes available or unavailable
StreamChange ==
    /\ stream_up' = ~stream_up
    /\ UNCHANGED <<cap, consecutive_failures, main_ev, frame_vars, hit_vars,
                   shot_vars, aux_vars>>

\* a step of main's thread
MainStep == ReadFrame \/ ReadFail \/ ReconnectAttempt

NextMain == MainStep \/ Quit \/ StreamChange

SpecMain == Init /\ [][NextMain]_vars

\* main is one sequential loop: a read, an open and a sleep all return, so
\* its next step is always taken
SpecMainFair == SpecMain /\ WF_vars(MainStep)

\* this step is a failed read of the frame loop
FailedRead == consecutive_failures' = consecutive_failures + 1

\* this step releases the open connection and enters the reconnect loop
Teardown == running /\ running' /\ cap = "open" /\ cap' = "none"

\* the reconnect gap: the loop runs and there is no open capture
InGap == running /\ cap # "open"

----------------------------------------------------------------------------
(* The reconnect loop of main (SpecMain, SpecMainFair) *)

\* main stands in the loop "while cap is None" of lines 747-767
InReconnectLoop == running /\ cap = "none"

\* this step leaves the reconnect loop
LeavesReconnectLoop == InReconnectLoop /\ ~InReconnectLoop'

\* once the stream is and stays available, a reconnect loop in progress ends
\* in a processed frame
C21_EventuallyResumes == (InReconnectLoop /\ []stream_up) ~> (main_ev = "frame")

\* C21 as claimed: the reconnect loop is left only by a successful reconnect
\* or by the quit key; an attempt that fails does not end the process; and
\* under fair scheduling, if the stream becomes and stays available, the
\* loop reconnects and a frame is processed again.
C21_RetryUntilSuccessOrQuit ==
    /\ [][/\ LeavesReconnectLoop
                => \/ (main_ev' = "reconnected" /\ cap' = "open")
                   \/ (main_ev' = "quit" /\ ~running')
          /\ (InReconnectLoop /\ main_ev' = "attempt_failed") => running']_vars
    /\ C21_EventuallyResumes


----------------------------------------------------------------------------
(* read() on an open source (SpecClient) *)

\* this step is a call of read() that returned something new or took a
\* frame: every step of the producer moves recv_pc
ReadStep ==
    /\ recv_pc' = recv_pc
    /\ UNCHANGED client_vars
    /\ <<read_out, frame_queue>>' # <<read_out, frame_queue>>

\* the producer is between two frames: it has no frame in hand
BetweenFrames == recv_pc \in {"recv", "stopped"}

----------------------------------------------------------------------------
(* webrtc_client.py : the life of one WebRTCClient, from start() on.       *)
(* Three threads take steps: the caller's (start, read, stop), the         *)
(* background thread that runs _connect and, on the same event loop, the   *)
(* connection-state callback and _receive_frames.  A network wait (ICE     *)
(* gathering, the signaling request) ends when the network lets it; the    *)
(* 0.1 s polls and the local calls end promptly.                            *)

\* start(), lines 147-153, has set self.running and started the thread;
\* the caller waits in the loop of lines 158-161
InitSource ==
    /\ InitDetector
    /\ player_id = 1
    /\ hit_in = [image |-> NoImage, hand_bbox |-> NoBox, player_id |-> 1]
    /\ hit_out = HitIdle
    /\ InitMain
    /\ InitBackend
    /\ InitSession
    /\ IdleFn
    /\ frame_queue = <<>>
    /\ last_frame = 0
    /\ recv_pc = "idle"
    /\ img = 0
    /\ received = 0
    /\ read_out = NoFrame("none")
    /\ inserted = {}
    /\ consumed = {}
    /\ client_running = TRUE
    /\ connected = FALSE
    /\ conn_pc = "create"
    /\ pc = "none"
    /\ conn_state = "new"
    /\ start_pc = "waiting"
    /\ stop_pc = "idle"
    /\ error = NoError
    /\ handshake = <<>>
    /\ signal_reply = NoSignalingReply

SourceIdle == UNCHANGED <<frame_vars, hit_vars, shot_vars, main_vars, fn_vars,
                          queue_vars, effect_vars, backend_vars, session_vars>>

\* _connect, lines 42-78: the peer connection is made, its handlers are set,
\* the offer is created and becomes the local description
CreatePeerConnection ==
    /\ conn_pc = "create"
    /\ conn_pc' = "gathering"
    /\ pc' = "open"
    /\ handshake' = handshake \o <<"offer", "local_description">>
    /\ UNCHANGED <<client_running, connected, conn_state, start_pc, stop_pc,
                   error, signal_reply>>
    /\ SourceIdle

\* lines 81-95: the wait for ICE gathering ends, self.running is not looked
\* at, and the local description is POSTed to the signaling endpoint
GatheringComplete ==
    /\ conn_pc = "gathering"
    /\ conn_pc' = "signaling"
    /\ handshake' = handshake \o <<"gathering_complete", "post">>
    /\ UNCHANGED <<client_running, connected, pc, conn_state, start_pc, stop_pc,
                   error, signal_reply>>
    /\ SourceIdle

\* variant: the answer of every 2xx response is applied
SignalingAnswered_Any2xx ==
    /\ conn_pc = "signaling"
    /\ \E r \in SignalingReplies :
          /\ r.kind = "response" /\ r.status \in 200..299
          /\ signal_reply' = r
    /\ conn_pc' = "keepalive"
    /\ handshake' = Append(handshake, "remote_description")
    /\ UNCHANGED <<client_running, connected, pc, conn_state, start_pc, stop_pc,
                   error>>
    /\ SourceIdle

\* lines 96-100: the signaling request is answered with 200 or 201 and the
\* answer becomes the remote description
SignalingAnswered ==
    /\ conn_pc = "signaling"
    /\ \E r \in SignalingReplies :
          /\ r.kind = "response" /\ r.status \in {200, 201}
          /\ signal_reply' = r
    /\ conn_pc' = "keepalive"
    /\ handshake' = Append(handshake, "remote_description")
    /\ UNCHANGED <<client_running, connected, pc, conn_state, start_pc, stop_pc,
                   error>>
    /\ SourceIdle

\* lines 96-105, 34-38: the signaling request is answered with another
\* status or raises an aiohttp.ClientError, or setRemoteDescription raises
\* on the answer; the exception leaves _connect before line 112,
\* _run_async_loop records it in self.error and closes the event loop, and
\* the thread ends
SignalingFails ==
    /\ conn_pc = "signaling"
    /\ \E r \in SignalingReplies :
          /\ signal_reply' = r
          /\ error' = (IF r.kind = "client_error" THEN "HTTP error"
                       ELSE IF r.status \in {200, 201} THEN "answer refused"
                       ELSE "Failed to get SDP answer")
    /\ conn_pc' = "ended"
    /\ UNCHANGED <<client_running, connected, pc, conn_state, start_pc, stop_pc,
                   handshake>>
    /\ SourceIdle

\* the states pc.connectionState can go to from state s
NextConnectionStates(s) ==
    CASE s = "new"          -> {"connecting"}
      [] s = "connecting"   -> {"connected", "failed"}
      [] s = "connected"    -> {"disconnected"}
      [] s = "disconnected" -> {"connected", "failed"}
      [] OTHER              -> {}

\* on_connectionstatechange, lines 63-70, for a change of the connection
\* state while the thread keeps the connection alive
ConnectionStateChange ==
    /\ conn_pc = "keepalive"
    /\ \E s \in NextConnectionStates(conn_state) :
          /\ conn_state' = s
          /\ IF s = "connected"
             THEN connected' = TRUE /\ UNCHANGED client_running
             ELSE IF s \in {"failed", "closed", "disconnected"}
             THEN connected' = FALSE /\ client_running' = FALSE
             ELSE UNCHANGED <<connected, client_running>>
    /\ UNCHANGED <<conn_pc, pc, start_pc, stop_pc>>
    /\ UNCHANGED handshake_vars
    /\ SourceIdle

\* lines 108-109: the keep-alive loop finds self.running false
KeepAliveEnds ==
    /\ conn_pc = "keepalive"
    /\ ~client_running
    /\ conn_pc' = "closing"
    /\ UNCHANGED <<client_running, connected, pc, conn_state, start_pc, stop_pc>>
    /\ UNCHANGED handshake_vars
    /\ SourceIdle

\* line 112, then lines 37-38: pc.close(), _connect returns and the event
\* loop is closed.  The callback for the state "closed" is scheduled on that
\* loop: it runs before the loop is closed or not at all.
ClosePeerConnection ==
    /\ conn_pc = "closing"
    /\ conn_pc' = "ended"
    /\ pc' = "closed"
    /\ conn_state' = "closed"
    /\ \E callback_runs \in BOOLEAN :
          connected' = (IF callback_runs THEN FALSE ELSE connected)
    /\ UNCHANGED <<client_running, start_pc, stop_pc>>
    /\ UNCHANGED handshake_vars
    /\ SourceIdle

\* start(), lines 158-165, leaves its wait with the client connected
StartReturns ==
    /\ start_pc = "waiting"
    /\ connected
    /\ start_pc' = "returned"
    /\ UNCHANGED <<client_running, connected, conn_pc, pc, conn_state, stop_pc>>
    /\ UNCHANGED handshake_vars
    /\ SourceIdle

\* start(), lines 158-165, raises: the error of a thread that has ended
\* (lines 159-160, self.running is left as it is), or no connection when the
\* wait ends by the 10 s timeout or by self.running being false (lines
\* 163-165, self.running = False)
StartRaises ==
    /\ start_pc = "waiting"
    /\ ~connected
    /\ start_pc' = "raised"
    /\ \/ client_running /\ error # NoError /\ UNCHANGED client_running
       \/ client_running' = FALSE
    /\ UNCHANGED <<connected, conn_pc, pc, conn_state, stop_pc>>
    /\ UNCHANGED handshake_vars
    /\ SourceIdle

\* on_track, lines 57-61: the video track arrives and _receive_frames starts
OnTrack ==
    /\ conn_pc = "keepalive"
    /\ recv_pc = "idle"
    /\ recv_pc' = "recv"
    /\ UNCHANGED <<frame_queue, last_frame, img, received, read_out, inserted,
                   consumed>>
    /\ QueueIdle

\* line 117: _receive_frames finds self.running false and returns
RecvStops ==
    /\ recv_pc = "recv"
    /\ ~client_running
    /\ recv_pc' = "stopped"
    /\ UNCHANGED <<frame_queue, last_frame, img, received, read_out, inserted,
                   consumed>>
    /\ QueueIdle

\* _receive_frames runs on the event loop of the thread, while that lives
LoopAlive == conn_pc \in {"keepalive", "closing"}

ReceiveFrames == LoopAlive /\ (Producer \/ RecvStops)

\* stop(), line 169
StopBegins ==
    /\ stop_pc = "idle"
    /\ client_running' = FALSE
    /\ stop_pc' = "joining"
    /\ UNCHANGED <<connected, conn_pc, pc, conn_state, start_pc>>
    /\ UNCHANGED handshake_vars
    /\ SourceIdle

\* stop(), lines 170-172: thread.join(timeout=2) returns, because the thread
\* has ended or because 2 s have passed while it waits for the network, and
\* self.connected is cleared
StopReturns ==
    /\ stop_pc = "joining"
    /\ conn_pc \in {"ended", "gathering", "signaling"}
    /\ connected' = FALSE
    /\ stop_pc' = "returned"
    /\ UNCHANGED <<client_running, conn_pc, pc, conn_state, start_pc>>
    /\ UNCHANGED handshake_vars
    /\ SourceIdle

NextSource ==
    \/ CreatePeerConnection \/ GatheringComplete
    \/ SignalingAnswered \/ SignalingFails
    \/ ConnectionStateChange \/ KeepAliveEnds \/ ClosePeerConnection
    \/ StartReturns \/ StartRaises
    \/ OnTrack \/ ReceiveFrames
    \/ Read
    \/ StopBegins \/ StopReturns

SpecSource == InitSource /\ [][NextSource]_vars

\* isOpened(), lines 191-193
isOpened == connected /\ client_running

\* C22 as claimed: when stop() has returned, the background thread has
\* ended and the peer connection has been closed, whatever the client was
\* doing when stop() was called.
C22_StopReleasesAll ==
    stop_pc = "returned" => (conn_pc = "ended" /\ pc = "closed")



\* the connection state is one of failed, closed, disconnected
Lost == conn_state \in {"failed", "closed", "disconnected"}

\* C26: when the connection state has become failed, closed or disconnected,
\* self.running is false and stays false, so isOpened() is false from then
\* on; a call of read() while the client is not both running and connected
\* returns (False, None) and takes nothing from the queue, whatever is
\* queued, and read() can always return; and a call of read() that returns a
\* frame is made while the client is running and connected.
C26_FailureContained ==
    [][/\ Lost' => (~client_running' /\ ~isOpened')
       /\ ~client_running => ~client_running'
       /\ ENABLED Read
       /\ (ReadStep /\ ~isOpened)
             => (read_out' = NoFrame("closed") /\ frame_queue' = frame_queue)
       /\ (ReadStep /\ read_out'.ok) => isOpened]_vars

\* the connection has failed with two frames queued, and read() has
\* returned (False, None)
C26_Witness ==
    /\ conn_state = "failed"
    /\ Len(frame_queue) = 2
    /\ last_frame # 0
    /\ ~isOpened
    /\ read_out = NoFrame("closed")


\* C24 as claimed: a call of process_frame makes at most one inference call
\* on a person detector, also when it handles a shot.
C24_OneDetectionPerFrame == detector_calls <= 1

\* C25 as claimed: on a shot, the image given to the hit validator is the
\* frame as it was pulled, with nothing drawn on it, and the hand box given
\* with it is the box of the selected hand.
C25_ValidatorGetsPulledFrame ==
    shot_call.made
        => (shot_call.overlay = {} /\ shot_call.hand_bbox = shot_call.selected)


----------------------------------------------------------------------------
(* The shot branch of process_frame statement by statement: which of its   *)
(* side effects run on the frame thread, between two evaluations of the    *)
(* gesture, and which run on a thread of their own.                        *)

\* the rest of the state while the frame thread is inside the shot branch
EffectIdle == UNCHANGED <<player_id, now, hit_vars, main_vars, fn_vars,
                          queue_vars, client_vars, backend_vars, handshake_vars,
                          session_vars>>

\* process_frame, lines 577-628: the frame is converted, the hand selected,
\* the overlays drawn and the gesture evaluated; on a shot event the thread
\* goes on into the shot branch, else the call returns
BeginFrame(f) ==
    \E closest_idx \in {get_closest_hand(f.hands, FrameShape)} :
    \E hand_bbox \in {IF closest_idx # 0
                      THEN get_hand_bbox(f.hands[closest_idx].landmark, FrameShape)
                      ELSE NoBox} :
    \E counts \in {detect_and_draw_person(FrameShape, f.persons,
                       IF closest_idx # 0 THEN <<hand_bbox>> ELSE <<>>)} :
    \E gun \in {closest_idx # 0 /\ is_finger_gun(f.hands[closest_idx].landmark)} :
        /\ frame_pc = "loop"
        /\ running
        /\ cap = "open"
        /\ yellow_count' = counts.yellow_count
        /\ green_count' = counts.green_count
        /\ finger_gun_detected' = gun
        /\ hits_sent' = 0
        /\ shot_valid' = FALSE
        /\ response' = NoResponse
        /\ report_ok' = FALSE
        /\ detector_calls' = 1
        /\ IF ~gun
           THEN /\ shot_fired' = FALSE
                /\ frame_hand' = None
                /\ frame_thumb_y' = 0
                /\ ev' = "none"
                /\ shot_call' = NoShotCall
                /\ frame_pc' = "loop"
                /\ UNCHANGED <<prev_thumb_y, is_cocked, last_shot_time>>
           ELSE \E hand_id \in {f.hands[closest_idx].label} :
                \E r \in {detect_cock_motion(hand_id,
                              f.hands[closest_idx].landmark[4].y, now)} :
                /\ prev_thumb_y' = r.prev_thumb_y
                /\ is_cocked' = r.is_cocked
                /\ last_shot_time' = r.last_shot_time
                /\ shot_fired' = r.shot_fired
                /\ frame_hand' = hand_id
                /\ frame_thumb_y' = f.hands[closest_idx].landmark[4].y
                /\ ev' = r.ev
                /\ shot_call' = (IF r.shot_fired
                                 THEN ShotCall(OverlayMarks(counts),
                                          get_hand_bbox(f.hands[closest_idx].landmark,
                                                        FrameShape),
                                          hand_bbox)
                                 ELSE NoShotCall)
                /\ frame_pc' = (IF r.shot_fired THEN "play_pew_sound" ELSE "loop")
        /\ UNCHANGED <<kill_streak, hand_shot_time, shot_log, running,
                       sound_threads>>
        /\ EffectIdle

\* line 630 and play_pew_sound, lines 108-112: when the sound is loaded a
\* daemon thread is started to play it, and the call returns at once
PlayPewSound ==
    /\ frame_pc = "play_pew_sound"
    /\ \E loaded \in BOOLEAN :
           sound_threads' = (IF loaded THEN sound_threads \cup {"pew"}
                             ELSE sound_threads)
    /\ frame_pc' = "save_shot"
    /\ UNCHANGED <<frame_vars, shot_vars>>
    /\ EffectIdle

\* lines 632-634 and save_shot, lines 373-380: cv2.imwrite is called on the
\* frame thread; the step is its return
SaveShot ==
    /\ frame_pc = "save_shot"
    /\ frame_pc' = "is_valid_hit"
    /\ UNCHANGED <<frame_vars, shot_vars, sound_threads>>
    /\ EffectIdle

\* line 635 and is_valid_hit up to its verdict (shot_analyzer.py lines
\* 150-184), on the frame thread: a valid hit goes on to send_hit_to_api
\* (line 187), any other verdict is returned
AnalyzeSavedShot ==
    /\ frame_pc = "is_valid_hit"
    /\ \E image \in ShotImages :
       \E hit \in {analyze_shot(image, shot_call.hand_bbox, player_id)} :
           /\ detector_calls' = (IF image.readable THEN 2 ELSE 1)
           /\ frame_pc' = (IF hit.sent THEN "send_hit_to_api" ELSE "on_hit")
           /\ hand_shot_time' = [hand_shot_time EXCEPT ![frame_hand] = now]
    /\ UNCHANGED <<detector_vars, hits_sent, shot_fired, finger_gun_detected,
                   frame_hand, frame_thumb_y, ev, shot_valid, response,
                   report_ok, shot_log, running, shot_call, sound_threads>>
    /\ EffectIdle

\* send_hit_to_api, lines 118-134, called at line 187 on the frame thread:
\* requests.post returns or raises, after at most its timeout of 5 s for
\* each phase of the request; is_valid_hit then returns True
SendHitReturns ==
    /\ frame_pc = "send_hit_to_api"
    /\ \E resp \in Responses :
       \E rep \in {send_hit_to_api(resp)} :
           /\ hits_sent' = 1
           /\ response' = resp
           /\ report_ok' = rep.ok
           /\ IF rep.raised
              THEN /\ running' = FALSE
                   /\ frame_pc' = "loop"
                   /\ UNCHANGED shot_valid
              ELSE /\ shot_valid' = TRUE
                   /\ frame_pc' = "on_hit"
                   /\ UNCHANGED running
    /\ UNCHANGED <<detector_vars, shot_fired, finger_gun_detected, frame_hand,
                   frame_thumb_y, ev, hand_shot_time, shot_log,
                   detector_calls, shot_call, sound_threads>>
    /\ EffectIdle

\* line 637, on_hit (lines 129-136) and play_kill_sound (lines 114-127):
\* the streak is updated and, on a valid hit whose sound is loaded, a daemon
\* thread is started to play it; process_frame then returns
OnHit ==
    /\ frame_pc = "on_hit"
    /\ kill_streak' = on_hit(kill_streak, shot_valid)
    /\ shot_log' = Append(shot_log, shot_valid)
    /\ \E loaded \in BOOLEAN :
           sound_threads' = (IF shot_valid /\ loaded
                             THEN sound_threads \cup {"kill"}
                             ELSE sound_threads)
    /\ frame_pc' = "loop"
    /\ UNCHANGED <<player_id, prev_thumb_y, is_cocked, last_shot_time,
                   yellow_count, green_count, hits_sent, shot_fired,
                   finger_gun_detected, frame_hand, frame_thumb_y, ev,
                   hand_shot_time, shot_valid, response, report_ok, running,
                   detector_calls, shot_call>>
    /\ UNCHANGED <<now, hit_vars, main_vars, fn_vars, queue_vars, client_vars,
                   backend_vars, handshake_vars, session_vars>>

\* a sound-playing thread ends
SoundEnds ==
    /\ \E t \in sound_threads : sound_threads' = sound_threads \ {t}
    /\ UNCHANGED <<frame_vars, hit_vars, shot_vars, main_vars, fn_vars,
                   queue_vars, client_vars, backend_vars, handshake_vars,
                   session_vars, frame_pc>>

\* the frame loop starts to process the next frame
BeginFrames == \E f \in MainFrames : BeginFrame(f)

NextEffects ==
    \/ Tick
    \/ BeginFrames
    \/ PlayPewSound
    \/ SaveShot
    \/ AnalyzeSavedShot
    \/ SendHitReturns
    \/ OnHit
    \/ SoundEnds

SpecEffects == Init /\ [][NextEffects]_vars

\* the side effects of a shot that have been started and have not ended:
\* the write of the shot image, the sounds and the hit report
Outstanding ==
    sound_threads
    \cup (IF frame_pc = "save_shot" THEN {"save_image"} ELSE {})
    \cup (IF frame_pc = "send_hit_to_api" THEN {"hit_report"} ELSE {})

\* C23 as claimed: while the loop is running, whichever side effect of a
\* shot is outstanding (the image write, a sound, the hit report), the frame
\* loop can start to process the next frame.
C23_EffectsOffFrameThread ==
    (running /\ Outstanding # {}) => ENABLED BeginFrames


----------------------------------------------------------------------------
(* The pose predicate as a method of the running detector: is_finger_gun   *)
(* is called on one landmark list at different moments of a session, and   *)
(* frames are processed in between.                                        *)

MaxCalls == 2           \* calls of is_finger_gun on the landmark list

\* landmark lists for which the pose holds, fails on the thumb alone, and
\* fails on the middle finger, and one whose middle finger extends on the
\* vertical axis alone
PoseInputs ==
    {HandLandmarks("gun_x", 50, 0), HandLandmarks("gun_y", 50, 0),
     HandLandmarks("gun_y", 53, 0), HandLandmarks("open", 50, 0),
     HandLandmarks("raised", 50, 0)}

InitPose ==
    /\ InitDetector
    /\ player_id = 1
    /\ hit_in = [image |-> NoImage, hand_bbox |-> NoBox, player_id |-> 1]
    /\ hit_out = HitIdle
    /\ InitMain
    /\ InitBackend
    /\ InitSession
    /\ InitQueue
    /\ ConnectedClient
    /\ fn_in \in PoseInputs
    /\ fn_out = <<>>

\* is_finger_gun(hand_landmarks), lines 143-183: the method reads the
\* landmark list and assigns no field.  fn_out keeps each result with the
\* cocked flags the detector had at the call.
IsFingerGun ==
    /\ Len(fn_out) < MaxCalls
    /\ fn_out' = Append(fn_out, [result |-> is_finger_gun(fn_in),
                                 is_cocked |-> is_cocked])
    /\ UNCHANGED <<frame_vars, hit_vars, shot_vars, main_vars, queue_vars,
                   client_vars, effect_vars, backend_vars, handshake_vars,
                   session_vars, fn_in>>

NextPose == IsFingerGun \/ ReadFrame \/ Tick

SpecPose == InitPose /\ [][NextPose]_vars

----------------------------------------------------------------------------
(* The validity rule of is_valid_hit and the settings it is taken from.    *)

\* USER_TEAM = "regular", the team of the user
USER_TEAM == "regular"

\* the loop of lines 164-182 up to the comparison of line 184: the resolved
\* team of the first detection that is not the hand and holds the
\* crosshair, None when there is no such detection
RECURSIVE selected_team(_, _, _, _)
selected_team(shape, persons, hand_bbox, i) ==
    IF i > Len(persons) THEN None
    ELSE IF hand_bbox # NoBox /\ boxes_overlap(hand_bbox, persons[i].box)
         THEN selected_team(shape, persons, hand_bbox, i + 1)
    ELSE IF crosshair_in(shape, persons[i].box)
         THEN resolved_team(shape, persons[i])
    ELSE selected_team(shape, persons, hand_bbox, i + 1)

\* the shots in which a target is selected, with the team of the target
TargetShots ==
    {s \in [image : HitImages \ {NoImage}, hand_bbox : HandBoxes] :
        selected_team(s.image.shape, s.image.persons, s.hand_bbox, 1) # None}
TargetTeamOf(s) == selected_team(s.image.shape, s.image.persons, s.hand_bbox, 1)

\* the verdicts of an analyzer made for player id pid follow the own-team
\* rule, or the target-team rule
FollowsOwnTeamRule(pid) ==
    \A s \in TargetShots :
        analyze_shot(s.image, s.hand_bbox, pid).valid <=> (TargetTeamOf(s) # USER_TEAM)
FollowsTargetTeamRule(pid) ==
    \A s \in TargetShots :
        analyze_shot(s.image, s.hand_bbox, pid).valid
            <=> (TargetTeamOf(s) = PLAYER_CONFIG(pid).target_team)

\* C29 as claimed: the analyzer that gives a verdict can be configured for
\* either rule: some setting makes a hit on a selected target valid exactly
\* when the target's team differs from the shooter's own team, and some
\* setting makes it valid exactly when the team is the configured target
\* team.  The player id is the one setting ShotAnalyzer takes.
C29_BothRulesConfigurable ==
    hit_out.done
        => /\ \E pid \in HitPlayerIds : FollowsOwnTeamRule(pid)
           /\ \E pid \in HitPlayerIds : FollowsTargetTeamRule(pid)


----------------------------------------------------------------------------
(* backend/main.py : the scoring service.  Each handler is an async        *)
(* function without an await, so a request is handled in one step of the   *)
(* event loop.  Requests carry values the pydantic models accept.          *)

MaxHitRows == 2         \* most rows the hits table holds
MaxScore == 2           \* highest score a player reaches

Usernames == {"Phil", "Kevin"}      \* the usernames of PLAYER_CONFIG
Teams == {"yellow", "green"}        \* Literal["yellow", "green"]
NoUrl == "None"
StreamUrls == {NoUrl, "rtmp://s"}

\* a request body; a field the request does not have is ""
Request(op, username, team, stream_url) ==
    [op |-> op, username |-> username, team |-> team, stream_url |-> stream_url]
Reply(status, detail, id) == [status |-> status, detail |-> detail, id |-> id]

\* players_table.find_one(username=u): the index of the row, 0 for None
find_one(u) ==
    IF \E i \in 1..Len(players) : players[i].username = u
    THEN CHOOSE i \in 1..Len(players) :
             /\ players[i].username = u
             /\ \A j \in 1..(i - 1) : players[j].username # u
    ELSE 0

\* list(players_table.find(team=t)): the indices of the rows
find_team(t) == {i \in 1..Len(players) : players[i].team = t}

\* the id an insert gives to a new row of the hits table
next_hit_id == IF hits = <<>> THEN 1 ELSE hits[Len(hits)].id + 1

\* the hits table without the hits given or taken by player id
hits_without(id) ==
    LET keep(h) == h.hitter_id # id /\ h.target_id # id
    IN  SelectSeq(hits, keep)

\* variant of create_player: of an existing player only the hits given are
\* deleted
CreatePlayer_KeepHitsTaken(u, t, url) ==
    /\ request' = Request("players", u, t, url)
    /\ \E idx \in {find_one(u)} :
        IF idx # 0
        THEN /\ players' = [players EXCEPT ![idx].score = 0, ![idx].team = t,
                                           ![idx].stream_url = url]
             /\ hits' = LET keep(h) == h.hitter_id # players[idx].id
                        IN  SelectSeq(hits, keep)
             /\ reply' = Reply(201, "", players[idx].id)
        ELSE /\ players' = Append(players, [id |-> Len(players) + 1, username |-> u,
                                            score |-> 0, team |-> t, stream_url |-> url])
             /\ hits' = hits
             /\ reply' = Reply(201, "", Len(players) + 1)

\* POST /players, create_player, lines 124-195
CreatePlayer(u, t, url) ==
    /\ request' = Request("players", u, t, url)
    /\ \E idx \in {find_one(u)} :
        IF idx # 0
        THEN /\ players' = [players EXCEPT ![idx].score = 0, ![idx].team = t,
                                           ![idx].stream_url = url]
             /\ hits' = hits_without(players[idx].id)
             /\ reply' = Reply(201, "", players[idx].id)
        ELSE /\ players' = Append(players, [id |-> Len(players) + 1, username |-> u,
                                            score |-> 0, team |-> t, stream_url |-> url])
             /\ hits' = hits
             /\ reply' = Reply(201, "", Len(players) + 1)

\* POST /streams, assign_stream, lines 229-261
AssignStream(u, url) ==
    /\ request' = Request("streams", u, "", url)
    /\ \E idx \in {find_one(u)} :
        IF idx = 0
        THEN /\ reply' = Reply(404, "player", 0)
             /\ UNCHANGED <<players, hits>>
        ELSE /\ players' = [players EXCEPT ![idx].stream_url = url]
             /\ reply' = Reply(200, "", 0)
             /\ UNCHANGED hits

\* variant of record_hit: the point is given before the teams are compared
RecordHit_ScoreFirst(u, target_team) ==
    /\ request' = Request("hits", u, target_team, "")
    /\ \E idx \in {find_one(u)} :
        IF idx = 0
        THEN /\ reply' = Reply(404, "hitter", 0)
             /\ UNCHANGED <<players, hits>>
        ELSE IF players[idx].team = target_team
        THEN /\ reply' = Reply(400, "own_team", 0)
             /\ players[idx].score < MaxScore
             /\ players' = [players EXCEPT ![idx].score = players[idx].score + 1]
             /\ UNCHANGED hits
        ELSE IF find_team(target_team) = {}
        THEN /\ reply' = Reply(404, "target_team", 0)
             /\ UNCHANGED <<players, hits>>
        ELSE /\ Len(hits) < MaxHitRows
             /\ players[idx].score < MaxScore
             /\ \E target \in find_team(target_team) :
                    hits' = Append(hits, [id |-> next_hit_id,
                                          hitter_id |-> players[idx].id,
                                          target_id |-> players[target].id])
             /\ players' = [players EXCEPT ![idx].score = players[idx].score + 1]
             /\ reply' = Reply(201, "", next_hit_id)

\* variant of record_hit: the target is drawn from all players
RecordHit_AnyTarget(u, target_team) ==
    /\ request' = Request("hits", u, target_team, "")
    /\ \E idx \in {find_one(u)} :
        IF idx = 0
        THEN /\ reply' = Reply(404, "hitter", 0)
             /\ UNCHANGED <<players, hits>>
        ELSE IF players[idx].team = target_team
        THEN /\ reply' = Reply(400, "own_team", 0)
             /\ UNCHANGED <<players, hits>>
        ELSE IF find_team(target_team) = {}
        THEN /\ reply' = Reply(404, "target_team", 0)
             /\ UNCHANGED <<players, hits>>
        ELSE /\ Len(hits) < MaxHitRows
             /\ players[idx].score < MaxScore
             /\ \E target \in 1..Len(players) :
                    hits' = Append(hits, [id |-> next_hit_id,
                                          hitter_id |-> players[idx].id,
                                          target_id |-> players[target].id])
             /\ players' = [players EXCEPT ![idx].score = players[idx].score + 1]
             /\ reply' = Reply(201, "", next_hit_id)

\* POST /hits, record_hit, lines 307-373.  The target is random.choice of
\* the players of the target team.
RecordHit(u, target_team) ==
    /\ request' = Request("hits", u, target_team, "")
    /\ \E idx \in {find_one(u)} :
        IF idx = 0
        THEN /\ reply' = Reply(404, "hitter", 0)
             /\ UNCHANGED <<players, hits>>
        ELSE IF players[idx].team = target_team
        THEN /\ reply' = Reply(400, "own_team", 0)
             /\ UNCHANGED <<players, hits>>
        ELSE IF find_team(target_team) = {}
        THEN /\ reply' = Reply(404, "target_team", 0)
             /\ UNCHANGED <<players, hits>>
        ELSE /\ Len(hits) < MaxHitRows
             /\ players[idx].score < MaxScore
             /\ \E target \in find_team(target_team) :
                    hits' = Append(hits, [id |-> next_hit_id,
                                          hitter_id |-> players[idx].id,
                                          target_id |-> players[target].id])
             /\ players' = [players EXCEPT ![idx].score = players[idx].score + 1]
             /\ reply' = Reply(201, "", next_hit_id)

\* POST /reset, reset_leaderboard, lines 562-603
ResetLeaderboard ==
    /\ request' = Request("reset", "", "", "")
    /\ players' = [i \in 1..Len(players) |-> [players[i] EXCEPT !.score = 0]]
    /\ hits' = <<>>
    /\ reply' = Reply(200, "", 0)

BackendIdle == UNCHANGED <<frame_vars, hit_vars, shot_vars, main_vars, fn_vars,
                           queue_vars, client_vars, effect_vars,
                           handshake_vars, session_vars>>

NextBackend ==
    \/ \E u \in Usernames, t \in Teams, url \in StreamUrls :
           CreatePlayer(u, t, url) /\ BackendIdle
    \/ \E u \in Usernames, url \in StreamUrls : AssignStream(u, url) /\ BackendIdle
    \/ \E u \in Usernames, t \in Teams : RecordHit(u, t) /\ BackendIdle
    \/ ResetLeaderboard /\ BackendIdle

SpecBackend == Init /\ [][NextBackend]_vars

\* C30: a POST /hits is answered with 404 when no player has the hitter's
\* username, with 400 when the hitter's team is the target team, and with
\* 404 when no player is on the target team; a POST /hits answered with 400
\* or 404 leaves the hits table and every player's row, score included, as
\* they were.
C30_RejectedHits ==
    [][request'.op = "hits"
          => LET idx == find_one(request'.username)
                 target_team == request'.team
             IN  /\ idx = 0 => reply'.status = 404
                 /\ (idx # 0 /\ players[idx].team = target_team)
                        => reply'.status = 400
                 /\ (idx # 0 /\ players[idx].team # target_team
                              /\ find_team(target_team) = {})
                        => reply'.status = 404
                 /\ reply'.status \in {400, 404}
                        => UNCHANGED <<players, hits>>]_vars

\* a hit on the hitter's own team has been rejected with 400 while the
\* tables hold a hit and a score of 1
C30_Witness ==
    /\ request.op = "hits"
    /\ reply.status = 400
    /\ Len(hits) = 1
    /\ \E i \in 1..Len(players) : players[i].score = 1


\* C31: a POST /hits answered with 201 adds exactly one row to the hits
\* table and removes none; the hitter of the new row is the player named in
\* the request, its target is a player who is on the target team at that
\* moment and so not on the hitter's team; the hitter's score grows by
\* exactly 1 and no other field of any player changes.
C31_AcceptedHits ==
    [][(request'.op = "hits" /\ reply'.status = 201)
          => LET idx == find_one(request'.username)
                 new == hits'[Len(hits')]
             IN  /\ idx # 0
                 /\ Len(hits') = Len(hits) + 1
                 /\ SubSeq(hits', 1, Len(hits)) = hits
                 /\ new.hitter_id = players[idx].id
                 /\ \E t \in 1..Len(players) :
                        /\ players[t].id = new.target_id
                        /\ players[t].team = request'.team
                        /\ players[t].team # players[idx].team
                 /\ players' = [players EXCEPT ![idx].score = players[idx].score + 1]]_vars

\* a second hit has been accepted: two rows, the hitter's score is 2
C31_Witness ==
    /\ request.op = "hits"
    /\ reply.status = 201
    /\ Len(hits) = 2
    /\ hits[2].id = reply.id
    /\ \E i \in 1..Len(players) : players[i].score = 2 /\ players[i].id = hits[2].hitter_id


\* no two rows of the players table have the same username
UniqueUsernames(rows) ==
    \A i, j \in 1..Len(rows) : rows[i].username = rows[j].username => i = j

\* C32: a POST /players with a username no player has appends one player
\* with that username, the requested team and stream_url and score 0, and
\* leaves the other players and the hits as they are; with the username of
\* an existing player it adds no row, sets that player's score to 0 and its
\* team and stream_url to the requested ones, leaves the other players as
\* they are, and deletes exactly the hits in which that player is the
\* hitter or the target; and after every step no two players share a
\* username.
C32_Registration ==
    [][/\ UniqueUsernames(players')
       /\ request'.op = "players"
             => LET idx == find_one(request'.username)
                    row(id) == [id |-> id, username |-> request'.username,
                                score |-> 0, team |-> request'.team,
                                stream_url |-> request'.stream_url]
                IN  IF idx = 0
                    THEN /\ players' = Append(players, row(Len(players) + 1))
                         /\ \A i \in 1..Len(players) : players[i].id # Len(players) + 1
                         /\ hits' = hits
                    ELSE /\ players' = [players EXCEPT ![idx] = row(players[idx].id)]
                         /\ \A k \in 1..Len(hits') :
                                /\ hits'[k].hitter_id # players[idx].id
                                /\ hits'[k].target_id # players[idx].id
                         /\ LET others(h) == /\ h.hitter_id # players[idx].id
                                             /\ h.target_id # players[idx].id
                            IN  hits' = SelectSeq(hits, others)]_vars

\* a player who had been hit has registered again as green with a stream
\* URL: the score is 0 and the hit is deleted, the hitter keeps the point
C32_Witness ==
    /\ request.op = "players"
    /\ Len(players) = 2
    /\ \E i \in 1..2 :
           /\ players[i].username = request.username
           /\ players[i].team = "green"
           /\ players[i].stream_url = "rtmp://s"
           /\ players[i].score = 0
           /\ players[3 - i].score = 1
    /\ hits = <<>>


\* get_leaderboard, lines 479-488: the hits a player has given, summed over
\* the targets
hits_given(id) == Cardinality({k \in 1..Len(hits) : hits[k].hitter_id = id})

\* C38 as claimed: after any sequence of POST /players, POST /hits and POST
\* /reset every player's score is the number of stored hits in which the
\* player is the hitter.
C38_ScoreIsHitsGiven ==
    \A i \in 1..Len(players) : players[i].score = hits_given(players[i].id)


\* the signaling request got a response with status 200 or 201
AnswerStatus ==
    signal_reply.kind = "response" /\ signal_reply.status \in {200, 201}

\* C33: the handshake goes in the order offer, local description, ICE
\* gathering complete, POST, remote description, so the offer is the local
\* description before anything else and is POSTed only after gathering is
\* complete; the answer has become the remote description only if the
\* response had status 200 or 201; and when the request got another status
\* or an HTTP error, no answer is applied, self.error is set, the client is
\* not connected, and start() has not returned and raises if it still
\* waits.
C33_HandshakeOrder ==
    /\ \E n \in 0..Len(CompleteHandshake) : handshake = SubSeq(CompleteHandshake, 1, n)
    /\ (\E i \in 1..Len(handshake) : handshake[i] = "remote_description") => AnswerStatus
    /\ (signal_reply.kind # "none" /\ ~AnswerStatus)
          => /\ \A i \in 1..Len(handshake) : handshake[i] # "remote_description"
             /\ error # NoError
             /\ ~connected
             /\ start_pc \in {"waiting", "raised"}
             /\ start_pc = "waiting" => ENABLED StartRaises

\* the signaling endpoint answered 404 after the POST: the error is recorded
\* and start() has raised
C33_Witness ==
    /\ handshake = <<"offer", "local_description", "gathering_complete", "post">>
    /\ signal_reply = SignalingReply("response", 404)
    /\ error = "Failed to get SDP answer"
    /\ start_pc = "raised"
    /\ client_running


----------------------------------------------------------------------------
(* webrtc_client.py : one WebRTCClient over a sequence of start() and      *)
(* stop() calls made by one caller.  Every start() that finds self.running *)
(* false starts a new background thread with an event loop of its own;     *)
(* each thread runs _connect, makes a peer connection and stores it in      *)
(* self.pc, which the statements of every thread read again later.          *)

Threads == 1..MaxStarts

\* the background threads that have been started and have not ended
AliveThreads == {t \in Threads : threads[t] \notin {"unstarted", "ended"}}

\* a client as __init__ leaves it, lines 18-26
InitCalls ==
    /\ InitDetector
    /\ player_id = 1
    /\ hit_in = [image |-> NoImage, hand_bbox |-> NoBox, player_id |-> 1]
    /\ hit_out = HitIdle
    /\ InitMain
    /\ InitBackend
    /\ InitSession
    /\ IdleFn
    /\ frame_queue = <<>>
    /\ last_frame = 0
    /\ recv_pc = "idle"
    /\ img = 0
    /\ received = 0
    /\ read_out = NoFrame("none")
    /\ inserted = {}
    /\ consumed = {}
    /\ client_running = FALSE
    /\ connected = FALSE
    /\ conn_pc = "create"
    /\ pc = "none"
    /\ conn_state = "new"
    /\ start_pc = "idle"
    /\ stop_pc = "idle"
    /\ error = NoError
    /\ handshake = <<>>
    /\ signal_reply = NoSignalingReply

SessionIdle == UNCHANGED <<frame_vars, hit_vars, shot_vars, main_vars, fn_vars,
                           queue_vars, effect_vars, backend_vars, conn_pc, pc,
                           conn_state, handshake, signal_reply>>

\* the caller calls start(); it makes one call at a time
StartCalled ==
    /\ start_pc \in {"idle", "returned", "raised"}
    /\ stop_pc # "joining"
    /\ start_pc' = "called"
    /\ UNCHANGED <<client_running, connected, stop_pc, error, session_vars>>
    /\ SessionIdle

\* start(), lines 147-148: self.running is set and start() returns at once
StartFindsRunning ==
    /\ start_pc = "called"
    /\ client_running
    /\ start_pc' = "returned"
    /\ UNCHANGED <<client_running, connected, stop_pc, error, session_vars>>
    /\ SessionIdle

\* start(), lines 150-153: self.running and self.error are set and a new
\* thread is started
StartThread ==
    /\ start_pc = "called"
    /\ ~client_running
    /\ \E t \in Threads :
          /\ threads[t] = "unstarted"
          /\ \A u \in 1..(t - 1) : threads[u] # "unstarted"
          /\ threads' = [threads EXCEPT ![t] = "create"]
          /\ self_thread' = t
    /\ client_running' = TRUE
    /\ error' = NoError
    /\ start_pc' = "waiting"
    /\ UNCHANGED <<connected, stop_pc, pcs, self_pc>>
    /\ SessionIdle

\* start(), lines 158 and 163: the wait ends with self.connected set and
\* start() returns
StartConnected ==
    /\ start_pc = "waiting"
    /\ connected
    /\ start_pc' = "returned"
    /\ UNCHANGED <<client_running, connected, stop_pc, error, session_vars>>
    /\ SessionIdle

\* start(), lines 158-160: inside the wait loop self.error is found set and
\* is raised; self.running is left as it is
StartRaisesError ==
    /\ start_pc = "waiting"
    /\ ~connected /\ client_running
    /\ error # NoError
    /\ start_pc' = "raised"
    /\ UNCHANGED <<client_running, connected, stop_pc, error, session_vars>>
    /\ SessionIdle

\* start(), lines 158 and 163-165: the wait ends without a connection,
\* because self.running is false or because 10 s have passed while the
\* thread waits for the network or has ended
StartTimesOut ==
    /\ start_pc = "waiting"
    /\ ~connected
    /\ \/ ~client_running
       \/ threads[self_thread] \in {"gathering", "signaling", "keepalive", "ended"}
    /\ client_running' = FALSE
    /\ start_pc' = "raised"
    /\ UNCHANGED <<connected, stop_pc, error, session_vars>>
    /\ SessionIdle

\* _connect of thread t, lines 42-78: its peer connection is made and stored
\* in self.pc, and the offer becomes its local description
ThreadCreatesPc(t) ==
    /\ threads[t] = "create"
    /\ threads' = [threads EXCEPT ![t] = "gathering"]
    /\ pcs' = [pcs EXCEPT ![t] = [state |-> "open", conn |-> "new", remote |-> FALSE]]
    /\ self_pc' = t
    /\ UNCHANGED <<client_running, connected, start_pc, stop_pc, error, self_thread>>
    /\ SessionIdle

\* lines 81-95: the wait for ICE gathering ends and the offer is POSTed
ThreadGathered(t) ==
    /\ threads[t] = "gathering"
    /\ threads' = [threads EXCEPT ![t] = "signaling"]
    /\ UNCHANGED <<client_running, connected, start_pc, stop_pc, error, pcs,
                   self_pc, self_thread>>
    /\ SessionIdle

\* lines 96-100: the request is answered with 200 or 201 and the answer is
\* given to self.pc, the connection stored last.  A connection that is
\* closed or has an answer already refuses it: the exception ends the
\* thread as in ThreadSignalingFails.
ThreadAnswered(t) ==
    /\ threads[t] = "signaling"
    /\ IF pcs[self_pc].state = "open" /\ ~pcs[self_pc].remote
       THEN /\ pcs' = [pcs EXCEPT ![self_pc].remote = TRUE]
            /\ threads' = [threads EXCEPT ![t] = "keepalive"]
            /\ UNCHANGED error
       ELSE /\ error' = "answer refused"
            /\ threads' = [threads EXCEPT ![t] = "ended"]
            /\ UNCHANGED pcs
    /\ UNCHANGED <<client_running, connected, start_pc, stop_pc, self_pc, self_thread>>
    /\ SessionIdle

\* lines 101-105, 34-38: the request fails; the exception leaves _connect
\* before line 112, self.error is set and the thread ends
ThreadSignalingFails(t) ==
    /\ threads[t] = "signaling"
    /\ error' = "Failed to get SDP answer"
    /\ threads' = [threads EXCEPT ![t] = "ended"]
    /\ UNCHANGED <<client_running, connected, start_pc, stop_pc, pcs, self_pc,
                   self_thread>>
    /\ SessionIdle

\* on_connectionstatechange, lines 63-70, of the connection thread t made,
\* run on the event loop of t: the state of that connection has changed,
\* and the handler looks at the state of self.pc
ThreadConnectionState(t) ==
    /\ threads[t] \in {"gathering", "signaling", "keepalive"}
    /\ pcs[t].state = "open" /\ pcs[t].remote
    /\ \E s \in NextConnectionStates(pcs[t].conn) :
          /\ pcs' = [pcs EXCEPT ![t].conn = s]
          /\ IF pcs'[self_pc].conn = "connected"
             THEN connected' = TRUE /\ UNCHANGED client_running
             ELSE IF pcs'[self_pc].conn \in {"failed", "closed", "disconnected"}
             THEN connected' = FALSE /\ client_running' = FALSE
             ELSE UNCHANGED <<connected, client_running>>
    /\ UNCHANGED <<start_pc, stop_pc, error, threads, self_pc, self_thread>>
    /\ SessionIdle

\* lines 108-109: the keep-alive loop of thread t finds self.running false
ThreadKeepAliveEnds(t) ==
    /\ threads[t] = "keepalive"
    /\ ~client_running
    /\ threads' = [threads EXCEPT ![t] = "closing"]
    /\ UNCHANGED <<client_running, connected, start_pc, stop_pc, error, pcs,
                   self_pc, self_thread>>
    /\ SessionIdle

\* line 112, then lines 37-38: thread t closes self.pc, the connection
\* stored last, and ends.  The handler for the state "closed" runs before
\* the event loop is closed or not at all.
ThreadClosesPc(t) ==
    /\ threads[t] = "closing"
    /\ threads' = [threads EXCEPT ![t] = "ended"]
    /\ pcs' = [pcs EXCEPT ![self_pc].state = "closed", ![self_pc].conn = "closed"]
    /\ \E callback_runs \in BOOLEAN :
          IF callback_runs
          THEN connected' = FALSE /\ client_running' = FALSE
          ELSE UNCHANGED <<connected, client_running>>
    /\ UNCHANGED <<start_pc, stop_pc, error, self_pc, self_thread>>
    /\ SessionIdle

\* stop(), lines 169-170: self.running is cleared; without a thread stop()
\* goes on to line 172
StopCalled ==
    /\ stop_pc \in {"idle", "returned"}
    /\ start_pc \in {"idle", "returned", "raised"}
    /\ client_running' = FALSE
    /\ IF self_thread = 0
       THEN connected' = FALSE /\ stop_pc' = "returned"
       ELSE stop_pc' = "joining" /\ UNCHANGED connected
    /\ UNCHANGED <<start_pc, error, session_vars>>
    /\ SessionIdle

\* stop(), lines 171-172: join(timeout=2) of self.thread returns, because
\* that thread has ended or because 2 s have passed while it waits for the
\* network, and self.connected is cleared
StopJoined ==
    /\ stop_pc = "joining"
    /\ threads[self_thread] \in {"ended", "gathering", "signaling"}
    /\ connected' = FALSE
    /\ stop_pc' = "returned"
    /\ UNCHANGED <<client_running, start_pc, error, session_vars>>
    /\ SessionIdle

NextCalls ==
    \/ StartCalled \/ StartFindsRunning \/ StartThread
    \/ StartConnected \/ StartRaisesError \/ StartTimesOut
    \/ \E t \in Threads : ThreadCreatesPc(t)
    \/ \E t \in Threads : ThreadGathered(t)
    \/ \E t \in Threads : ThreadAnswered(t)
    \/ \E t \in Threads : ThreadSignalingFails(t)
    \/ \E t \in Threads : ThreadConnectionState(t)
    \/ \E t \in Threads : ThreadKeepAliveEnds(t)
    \/ \E t \in Threads : ThreadClosesPc(t)
    \/ StopCalled \/ StopJoined

SpecCalls == InitCalls /\ [][NextCalls]_vars

\* C36 as claimed: a call of start() returns without raising only if the
\* client is connected when it returns, in every sequence of start() and
\* stop() calls on the client.
C36_StartReturnsConnected ==
    [][(start_pc \in {"called", "waiting"} /\ start_pc' = "returned") => connected']_vars

\* C37 as claimed: the peer connection made by a background thread that has
\* ended is closed, and at most one background thread of the client is
\* alive.
C37_NoLeakedSession ==
    /\ \A t \in Threads : threads[t] = "ended" => pcs[t].state = "closed"
    /\ Cardinality(AliveThreads) <= 1



----------------------------------------------------------------------------
(* order of the frames read() returns (SpecClient) *)

\* the frames successful calls of read() have returned so far: the frames
\* taken from the queue and the one of the last call.  On an open source a
\* call fails only while there is no last frame, so a call that failed was
\* preceded by calls that took their frames from the queue.
ReturnedSoFar ==
    consumed \cup (IF read_out.ok THEN {read_out.frame} ELSE {})

\* C35 as claimed: a successful read() never returns a frame produced
\* before a frame that an earlier successful read() returned; returning the
\* same frame again is allowed.
C35_FramesInOrder ==
    [][(ReadStep /\ read_out'.ok)
          => \A f \in ReturnedSoFar : f <= read_out'.frame]_vars



----------------------------------------------------------------------------
(* the cooldown between the shot events of the pipeline (Spec) *)

\* a shot event has been emitted before: last_shot_time starts at 0 and a
\* shot event stores the time of its call, which is later than 0
ShotBefore == last_shot_time # 0

\* C39: a shot event comes at least the cooldown after the shot event before
\* it, whichever hand ids fired the two; last_shot_time changes only in a
\* call that emits a shot event, which stores the time of the call; and a
\* firing motion of a Cocked hand emits a shot event exactly if the wall
\* clock is at least the cooldown past last_shot_time, however many frames
\* were processed since.
C39_CooldownBetweenShots ==
    [][/\ (shot_fired' /\ now' = now /\ ShotBefore)
             => /\ now - last_shot_time >= ShotCooldown
                /\ \A g \in HandIds :
                      hand_shot_time[g] # 0
                          => now - hand_shot_time[g] >= ShotCooldown
       /\ last_shot_time' # last_shot_time
             => (shot_fired' /\ last_shot_time' = now)
       /\ \A h \in HandIds :
             FiringMotion(h)
                 => (shot_fired' <=> now - last_shot_time >= ShotCooldown)]_vars

\* hand Right fires a shot exactly the cooldown after the shot of hand Left,
\* and its own first shot
C39_Witness ==
    /\ shot_fired
    /\ ev = "fire"
    /\ frame_hand = "Right"
    /\ last_shot_time = now
    /\ hand_shot_time["Right"] = now
    /\ hand_shot_time["Left"] = now - ShotCooldown



----------------------------------------------------------------------------
(* what the pose predicate requires of the fingers (SpecPose) *)

\* the finger with the given tip and pip landmarks extends forward on the
\* depth axis (its tip is nearer the camera than its pip joint) and on the
\* vertical axis (its tip is above its pip joint)
ExtendsInDepth(lm, tip, pip) == lm[tip].z < lm[pip].z
ExtendsUpward(lm, tip, pip) == lm[tip].y < lm[pip].y

\* tip and pip landmarks of the middle, ring and pinky fingers
OtherFingers == {<<12, 10>>, <<16, 14>>, <<20, 18>>}

\* the index finger and the thumb are as the pose wants them
IndexAndThumbExtended(lm) ==
    /\ ExtendsInDepth(lm, 8, 6) \/ ExtendsUpward(lm, 8, 6)
    /\ \/ lm[4].y < lm[2].y
       \/ lm[4].x - lm[2].x > 8
       \/ lm[2].x - lm[4].x > 8

\* C34 as claimed: is_finger_gun returns True only for a hand whose index
\* finger and thumb are extended and whose middle, ring and pinky fingers
\* each extend on neither the depth axis nor the vertical axis.
C34_CurledOnNeitherAxis ==
    \A i \in 1..Len(fn_out) :
        fn_out[i].result
            => /\ IndexAndThumbExtended(fn_in)
               /\ \A f \in OtherFingers :
                     /\ ~ExtendsInDepth(fn_in, f[1], f[2])
                     /\ ~ExtendsUpward(fn_in, f[1], f[2])

\* C34 amended: is_finger_gun returns True only for a hand whose index
\* finger and thumb are extended and whose middle, ring and pinky fingers
\* each fail to extend on at least one of the two axes: a finger counts as
\* not curled only if it extends on the depth axis and on the vertical axis.
C34_CurledOnOneAxis ==
    \A i \in 1..Len(fn_out) :
        fn_out[i].result
            => /\ IndexAndThumbExtended(fn_in)
               /\ \A f \in OtherFingers :
                     \/ ~ExtendsInDepth(fn_in, f[1], f[2])
                     \/ ~ExtendsUpward(fn_in, f[1], f[2])

\* the pose holds for a hand whose middle finger points up, its tip above
\* the pip joint and level with it in depth
C34_Witness ==
    /\ Len(fn_out) >= 1
    /\ fn_out[1].result
    /\ ExtendsUpward(fn_in, 12, 10)
    /\ ~ExtendsInDepth(fn_in, 12, 10)



----------------------------------------------------------------------------
(* the read-failure counter of main (SpecMain) *)

\* this step is a read of the frame loop: main is at cap.read() of line
\* 735 with a capture object, and the step is main's own and not the quit key
ReadOfFrameLoop ==
    /\ running /\ running'
    /\ cap \in {"open", "unopened"}
    /\ stream_up' = stream_up

\* C40: a read of the frame loop starts with the counter between 0 and 29;
\* if it gives a frame the counter becomes 0, and if it fails the counter
\* goes up by exactly 1; a successful reconnect makes it 0; and nothing else
\* changes it.
C40_ConsecutiveFailuresOnly ==
    [][/\ ReadOfFrameLoop
             => /\ consecutive_failures \in 0..(max_failures - 1)
                /\ main_ev' = "frame" => consecutive_failures' = 0
                /\ main_ev' # "frame"
                      => consecutive_failures' = consecutive_failures + 1
       /\ (cap = "none" /\ cap' = "open") => consecutive_failures' = 0
       /\ consecutive_failures' # consecutive_failures
             => \/ ReadOfFrameLoop
                \/ cap = "none" /\ cap' = "open"]_vars

=============================================================================
